---- MODULE Spec2Model ----
(***************************************************************************)
(* The stock ledgers of the stock-tracking server and the request handlers *)
(* that append to them and read from them.                                 *)
(*                                                                         *)
(*   histLedger  the StockHistory collection (strict ledger), in insertion *)
(*               order                                                     *)
(*   tsLedger    the StockTimeSeries collection (clamping ledger), in      *)
(*               insertion order                                           *)
(*   sseClients  global.sseClients, the live-subscriber registry           *)
(*   broken      the subscribers whose socket write throws                 *)
(*   now         Date.now(), in clock ticks                                *)
(*   conc        how many requests the callers keep in flight at once      *)
(*   cap         how many entries the callers append in all                *)
(*   stockLevels the active documents of the StockLevel collection, which   *)
(*               no route of this server writes                            *)
(*   inflight    the handlers suspended at an await: a bag of records,     *)
(*               each with the request body, the position of the handler   *)
(*               (pc) and the values it holds in local variables           *)
(*   res         the response sent last                                    *)
(*                                                                         *)
(* Every await of a handler is a point where other handlers run, so each   *)
(* handler is cut into one action per database round trip.                 *)
(***************************************************************************)
EXTENDS Integers, Sequences, FiniteSets, Bags, TLC

VARIABLES histLedger, tsLedger, sseClients, broken, now, conc, cap, stockLevels,
          inflight, res

vars ==
    <<histLedger, tsLedger, sseClients, broken, now, conc, cap, stockLevels, inflight, res>>

(***************************************************************************)
(* Bounds of the exploration.                                              *)
(***************************************************************************)
MaxConc == 2
MaxEntries == 2
MaxTime == 1
MaxWindow == 3
MaxDayRecords == 3
MaxDays == 5
MaxRestocks == 5

Clients == {"c1"}
Times == 0..MaxTime

(***************************************************************************)
(* Request bodies.  A change is a JSON value: numeric or not.  A timestamp *)
(* is optional, and when given is an ISO 8601 instant or not.              *)
(***************************************************************************)
Num(n) == [numeric |-> TRUE, value |-> n]
NotANumber == [numeric |-> FALSE, value |-> 0]
NoTimestamp == [given |-> FALSE, iso |-> TRUE, value |-> 0]
At(t) == [given |-> TRUE, iso |-> TRUE, value |-> t]
BadTimestamp == [given |-> TRUE, iso |-> FALSE, value |-> 0]

Body(p, c, r, t) == [productId |-> p, change |-> c, reason |-> r, timestamp |-> t]

ProductIds == {"P1", "P2"}

StockHistoryReasons == {"restock", "sale", "adjustment"}
StockTimeSeriesReasons == {"restock", "sale", "adjustment", "return", "damage"}

InvalidBodies ==
    { Body("", Num(1), "restock", NoTimestamp),
      Body("P1", NotANumber, "sale", NoTimestamp),
      Body("P1", Num(1), "invalid_reason", NoTimestamp) }

UpdateBodies ==
    { Body("P1", Num(1), "restock", NoTimestamp),
      Body("P1", Num(-2), "sale", NoTimestamp),
      Body("P2", Num(1), "restock", NoTimestamp),
      Body("P1", Num(1), "return", NoTimestamp) } \cup InvalidBodies

RecordBodies ==
    { Body("P1", Num(1), "restock", At(t)) : t \in Times } \cup
    { Body("P1", Num(-2), "sale", NoTimestamp),
      Body("P2", Num(1), "return", NoTimestamp),
      Body("P1", Num(1), "restock", BadTimestamp) } \cup InvalidBodies

QueryProductIds == ProductIds \cup {""}

(***************************************************************************)
(* Pure helpers.                                                           *)
(***************************************************************************)
Max(a, b) == IF a >= b THEN a ELSE b

\* Model.findOne({ productId }, {}, { sort: { timestamp: -1 } }): a document
\* of the product with the greatest timestamp, or null.  The result is a
\* sequence of length 0 (null) or 1.  The sort key is not unique, and the
\* order of documents with equal sort keys is not defined by the database:
\* any of them can come first.
findOne(ledger, productId) ==
    LET idx == {i \in DOMAIN ledger : ledger[i].productId = productId}
        top == {i \in idx : \A j \in idx : ledger[j].timestamp <= ledger[i].timestamp}
    IN  IF idx = {} THEN { <<>> } ELSE { <<ledger[i]>> : i \in top }

\* getLatestStockLevel with the sort ascending: the oldest entry's level.
getOldestStockLevel(ledger, productId) ==
    LET idx == {i \in DOMAIN ledger : ledger[i].productId = productId}
        bot == {i \in idx : \A j \in idx : ledger[i].timestamp <= ledger[j].timestamp}
    IN  IF idx = {} THEN {0} ELSE {ledger[i].stockLevel : i \in bot}

\* StockHistory.getLatestStockLevel: the possible return values.
getLatestStockLevel(ledger, productId) ==
    { IF r = <<>> THEN 0 ELSE r[1].stockLevel : r \in findOne(ledger, productId) }

\* A save that replaces the product's stored document instead of inserting.
saveUpsert(ledger, doc) ==
    IF \E i \in DOMAIN ledger : ledger[i].productId = doc.productId
    THEN [i \in DOMAIN ledger |->
             IF ledger[i].productId = doc.productId THEN doc ELSE ledger[i]]
    ELSE Append(ledger, doc)

\* model.save(): the collection with the document inserted.
save(ledger, doc) == Append(ledger, doc)

\* The chains of POST /api/stocks/update without the check of the reason.
UpdateErrorsNoReason(body) ==
    {f \in {"productId"} : body.productId = ""} \cup
    {f \in {"change"} : ~body.change.numeric}

\* express-validator chains of POST /api/stocks/update: the fields of
\* validationResult(req).
UpdateErrors(body) ==
    {f \in {"productId"} : body.productId = ""} \cup
    {f \in {"change"} : ~body.change.numeric} \cup
    {f \in {"reason"} : body.reason \notin StockHistoryReasons}

\* express-validator chains of POST /api/timeseries/record.
RecordErrors(body) ==
    {f \in {"productId"} : body.productId = ""} \cup
    {f \in {"change"} : ~body.change.numeric} \cup
    {f \in {"reason"} : body.reason \notin StockTimeSeriesReasons} \cup
    {f \in {"timestamp"} : body.timestamp.given /\ ~body.timestamp.iso}

\* express-validator chain of the GET routes of /api/stocks.
QueryErrors(productId) == {f \in {"productId"} : productId = ""}

\* The broadcast without try/catch around the write.
broadcastUnguarded(clients, brk) ==
    [clients |-> SelectSeq(clients, LAMBDA c : c \notin brk),
     uncaught |-> \E i \in DOMAIN clients : clients[i] \in brk]

\* The broadcast without the filter: every client stays registered.
broadcastKeepsBroken(clients, brk) == [clients |-> clients, uncaught |-> FALSE]

\* broadcastToSSEClients and the inline broadcast of POST /record: every
\* registered client is written to, inside try/catch; the registry keeps
\* the clients whose write returned.  uncaught tells whether an exception
\* leaves the broadcast.
broadcastToSSEClients(clients, brk) ==
    [clients |-> SelectSeq(clients, LAMBDA c : c \notin brk), uncaught |-> FALSE]

(***************************************************************************)
(* Requests and responses.                                                 *)
(***************************************************************************)
NoBody == Body("", NotANumber, "", NoTimestamp)

QueryBody(productId) == [NoBody EXCEPT !.productId = productId]

\* A suspended handler.
Handler(kind, pc, body) ==
    [kind |-> kind, pc |-> pc, body |-> body, timestamp |-> 0,
     latestRecord |-> <<>>, currentStockLevel |-> 0, doc |-> <<>>]

\* A response: the status and, in the body, the fields that failed
\* validation (errors), the message of a failure (error), and of the data
\* of a success the productId and the stock level: those of the saved
\* document of an append, the currentStockLevel of GET /current.
Response(kind, status, errors, error, productId, level) ==
    [kind |-> kind, status |-> status, errors |-> errors, error |-> error,
     productId |-> productId, level |-> level, query |-> <<>>, data |-> <<>>]

NoResponse == Response("none", 0, {}, "", "", 0)

Running == BagToSet(inflight)

Suspend(h) == inflight (+) SetToBag({h})

Resume(h, h2) == (inflight (-) SetToBag({h})) (+) SetToBag({h2})

Finish(h) == inflight (-) SetToBag({h})

\* Appends still on their way to a ledger.
Pending ==
    LET P == {h \in Running : h.pc \in {"read", "built"}}
    IN  BagCardinality([h \in P |-> inflight[h]])

CanStart == BagCardinality(inflight) < conc

CanAppend == Len(histLedger) + Len(tsLedger) + Pending < cap

Init ==
    /\ histLedger = <<>>
    /\ tsLedger = <<>>
    /\ sseClients = <<>>
    /\ broken = {}
    /\ now = 0
    /\ conc = MaxConc
    /\ cap = MaxEntries
    /\ stockLevels = <<>>
    /\ inflight = EmptyBag
    /\ res = NoResponse

InitSeq ==
    /\ histLedger = <<>>
    /\ tsLedger = <<>>
    /\ sseClients = <<>>
    /\ broken = {}
    /\ now = 0
    /\ conc = 1
    /\ cap = MaxEntries
    /\ stockLevels = <<>>
    /\ inflight = EmptyBag
    /\ res = NoResponse

\* The clock advances.
Tick ==
    /\ now < MaxTime
    /\ now' = now + 1
    /\ UNCHANGED <<histLedger, tsLedger, sseClients, broken, conc, cap, stockLevels, inflight, res>>

(***************************************************************************)
(* The live-subscriber registry.                                           *)
(***************************************************************************)
Registered == {sseClients[i] : i \in DOMAIN sseClients}

\* GET /api/stocks/events: the response object is pushed on the registry.
SSEConnect(c) ==
    /\ c \notin Registered
    /\ c \notin broken
    /\ sseClients' = Append(sseClients, c)
    /\ UNCHANGED <<histLedger, tsLedger, broken, now, conc, cap, stockLevels, inflight, res>>

\* A subscriber's socket breaks: from now on a write to it throws.
ClientBreak(c) ==
    /\ c \in Registered
    /\ c \notin broken
    /\ broken' = broken \cup {c}
    /\ UNCHANGED <<histLedger, tsLedger, sseClients, now, conc, cap, stockLevels, inflight, res>>

(***************************************************************************)
(* POST /api/stocks/update, the strict ledger.                             *)
(***************************************************************************)
\* recordStockChange with the negative-level test off by one.
recordStockChangeOffByOne(currentStockLevel, productId, change, reason, t) ==
    LET newStockLevel == currentStockLevel + change
    IN  IF newStockLevel < -1
        THEN [thrown |-> TRUE, doc |-> <<>>]
        ELSE [thrown |-> FALSE,
              doc |-> << [productId |-> productId, timestamp |-> t, change |-> change,
                          stockLevel |-> newStockLevel, reason |-> reason] >>]

\* StockHistory.recordStockChange after its read: the document to save, or
\* the error thrown.  t is Date.now(), the default of the timestamp field.
recordStockChange(currentStockLevel, productId, change, reason, t) ==
    LET newStockLevel == currentStockLevel + change
    IN  IF newStockLevel < 0
        THEN [thrown |-> TRUE, doc |-> <<>>]
        ELSE [thrown |-> FALSE,
              doc |-> << [productId |-> productId, timestamp |-> t, change |-> change,
                          stockLevel |-> newStockLevel, reason |-> reason] >>]

\* The handler up to its first await: validation, then the read of
\* getLatestStockLevel.
StartUpdate(body) ==
    /\ CanStart
    /\ IF UpdateErrors(body) # {}
       THEN /\ res' = Response("update", 400, UpdateErrors(body), "", "", 0)
            /\ UNCHANGED inflight
       ELSE /\ CanAppend
            /\ \E lvl \in getLatestStockLevel(histLedger, body.productId) :
                  inflight' = Suspend([Handler("update", "read", body)
                                          EXCEPT !.currentStockLevel = lvl])
            /\ UNCHANGED res
    /\ UNCHANGED <<histLedger, tsLedger, sseClients, broken, now, conc, cap, stockLevels>>

\* recordStockChange resumes with the level read: it throws, and the route
\* answers 400 with the message, or it builds the document and calls save.
BuildUpdate(h) ==
    /\ h.kind = "update"
    /\ h.pc = "read"
    /\ LET out == recordStockChange(h.currentStockLevel, h.body.productId,
                                    h.body.change.value, h.body.reason, now)
       IN  IF out.thrown
           THEN /\ inflight' = Finish(h)
                /\ res' = Response("update", 400, {},
                                   "Stock level cannot be negative", "", 0)
           ELSE /\ inflight' = Resume(h, [h EXCEPT !.pc = "built", !.doc = out.doc,
                                                   !.timestamp = now])
                /\ UNCHANGED res
    /\ UNCHANGED <<histLedger, tsLedger, sseClients, broken, now, conc, cap, stockLevels>>

\* The insert taken under a collection-wide lock that a handler holds from
\* the moment it has built its document.
SaveUpdateLocked(h) ==
    /\ h.kind = "update"
    /\ h.pc = "built"
    /\ \A g \in Running : (g.pc = "built" => g = h)
    /\ histLedger' = save(histLedger, h.doc[1])
    /\ inflight' = Resume(h, [h EXCEPT !.pc = "saved"])
    /\ UNCHANGED <<tsLedger, sseClients, broken, now, conc, cap, stockLevels, res>>

\* The database inserts the document.
SaveUpdate(h) ==
    /\ h.kind = "update"
    /\ h.pc = "built"
    /\ histLedger' = save(histLedger, h.doc[1])
    /\ inflight' = Resume(h, [h EXCEPT !.pc = "saved"])
    /\ UNCHANGED <<tsLedger, sseClients, broken, now, conc, cap, stockLevels, res>>

\* The handler resumes after save: broadcast, then the 201 response; an
\* exception that leaves the broadcast reaches the route's catch (400).
RespondUpdate(h) ==
    /\ h.kind = "update"
    /\ h.pc = "saved"
    /\ LET b == broadcastToSSEClients(sseClients, broken)
       IN  /\ sseClients' = IF b.uncaught THEN sseClients ELSE b.clients
           /\ res' = IF b.uncaught
                     THEN Response("update", 400, {}, "write failed", "", 0)
                     ELSE Response("update", 201, {}, "", h.doc[1].productId,
                                   h.doc[1].stockLevel)
    /\ inflight' = Finish(h)
    /\ UNCHANGED <<histLedger, tsLedger, broken, now, conc, cap, stockLevels>>

(***************************************************************************)
(* POST /api/timeseries/record, the clamping ledger.                       *)
(***************************************************************************)
\* The document built without the clamp at 0.
timeSeriesRecordUnclamped(latestRecord, productId, change, reason, timestamp) ==
    LET currentStockLevel == IF latestRecord # <<>> THEN latestRecord[1].stockLevel ELSE 0
        newStockLevel == currentStockLevel + change
        velocity == IF latestRecord # <<>> THEN change ELSE 0
        acceleration == IF latestRecord # <<>> THEN change - latestRecord[1].velocity ELSE 0
    IN  [productId |-> productId, timestamp |-> timestamp, change |-> change,
         stockLevel |-> newStockLevel, reason |-> reason,
         velocity |-> velocity, acceleration |-> acceleration]

\* The document the handler builds from the latest record it read.
timeSeriesRecord(latestRecord, productId, change, reason, timestamp) ==
    LET currentStockLevel == IF latestRecord # <<>> THEN latestRecord[1].stockLevel ELSE 0
        newStockLevel == Max(0, currentStockLevel + change)
        velocity == IF latestRecord # <<>> THEN change ELSE 0
        acceleration == IF latestRecord # <<>> THEN change - latestRecord[1].velocity ELSE 0
    IN  [productId |-> productId, timestamp |-> timestamp, change |-> change,
         stockLevel |-> newStockLevel, reason |-> reason,
         velocity |-> velocity, acceleration |-> acceleration]

\* The handler up to save: validation, the timestamp (the caller's, or
\* new Date()), the read of the latest record, and the document built from
\* it; between the read and the call of save the handler touches no shared
\* state.
StartRecord(body) ==
    /\ CanStart
    /\ IF RecordErrors(body) # {}
       THEN /\ res' = Response("record", 400, RecordErrors(body), "", "", 0)
            /\ UNCHANGED inflight
       ELSE /\ CanAppend
            /\ LET timestamp == IF body.timestamp.given THEN body.timestamp.value ELSE now
               IN  \E latestRecord \in findOne(tsLedger, body.productId) :
                     inflight' = Suspend([Handler("record", "built", body) EXCEPT
                        !.timestamp = timestamp,
                        !.latestRecord = latestRecord,
                        !.currentStockLevel =
                            IF latestRecord # <<>> THEN latestRecord[1].stockLevel ELSE 0,
                        !.doc = << timeSeriesRecord(latestRecord, body.productId,
                                       body.change.value, body.reason, timestamp) >>])
            /\ UNCHANGED res
    /\ UNCHANGED <<histLedger, tsLedger, sseClients, broken, now, conc, cap, stockLevels>>

\* The database inserts the document.
SaveRecord(h) ==
    /\ h.kind = "record"
    /\ h.pc = "built"
    /\ tsLedger' = save(tsLedger, h.doc[1])
    /\ inflight' = Resume(h, [h EXCEPT !.pc = "saved"])
    /\ UNCHANGED <<histLedger, sseClients, broken, now, conc, cap, stockLevels, res>>

\* The handler resumes after save: the inline broadcast, then the 201
\* response.
RespondRecord(h) ==
    /\ h.kind = "record"
    /\ h.pc = "saved"
    /\ LET b == broadcastToSSEClients(sseClients, broken)
       IN  /\ sseClients' = IF b.uncaught THEN sseClients ELSE b.clients
           /\ res' = IF b.uncaught
                     THEN Response("record", 400, {}, "write failed", "", 0)
                     ELSE Response("record", 201, {}, "", h.doc[1].productId,
                                   h.doc[1].stockLevel)
    /\ inflight' = Finish(h)
    /\ UNCHANGED <<histLedger, tsLedger, broken, now, conc, cap, stockLevels>>

(***************************************************************************)
(* GET /api/stocks/current.                                                *)
(***************************************************************************)
\* GET /current answered from StockHistory alone.
StartCurrentHistoryOnly(productId) ==
    /\ CanStart
    /\ IF QueryErrors(productId) # {}
       THEN /\ res' = Response("current", 400, QueryErrors(productId), "", "", 0)
            /\ UNCHANGED inflight
       ELSE /\ inflight' = Suspend(Handler("current", "fallback", QueryBody(productId)))
            /\ UNCHANGED res
    /\ UNCHANGED <<histLedger, tsLedger, sseClients, broken, now, conc, cap, stockLevels>>

\* Validation, then the read of the time-series ledger; its latest record
\* answers the request when there is one.
StartCurrent(productId) ==
    /\ CanStart
    /\ IF QueryErrors(productId) # {}
       THEN /\ res' = Response("current", 400, QueryErrors(productId), "", "", 0)
            /\ UNCHANGED inflight
       ELSE \E latestRecord \in findOne(tsLedger, productId) :
              IF latestRecord # <<>>
              THEN /\ res' = Response("current", 200, {}, "", productId,
                                      latestRecord[1].stockLevel)
                   /\ UNCHANGED inflight
              ELSE /\ inflight' = Suspend(Handler("current", "fallback",
                                                  QueryBody(productId)))
                   /\ UNCHANGED res
    /\ UNCHANGED <<histLedger, tsLedger, sseClients, broken, now, conc, cap, stockLevels>>

\* No time-series record: StockHistory.getLatestStockLevel answers.
FallbackCurrent(h) ==
    /\ h.kind = "current"
    /\ h.pc = "fallback"
    /\ \E lvl \in getLatestStockLevel(histLedger, h.body.productId) :
          res' = Response("current", 200, {}, "", h.body.productId, lvl)
    /\ inflight' = Finish(h)
    /\ UNCHANGED <<histLedger, tsLedger, sseClients, broken, now, conc, cap, stockLevels>>

(***************************************************************************)
(* JavaScript numbers, as far as StockAnalysisService computes with them:  *)
(* the rationals n/d in lowest terms with d > 0, computed exactly, and the *)
(* values a division by zero produces (NaN, Infinity, -Infinity).  Null is *)
(* the null of a missing moving-average position.                          *)
(***************************************************************************)
Abs(a) == IF a < 0 THEN -a ELSE a

RECURSIVE GCD(_, _)
GCD(a, b) == IF b = 0 THEN a ELSE GCD(b, a % b)

Rat(n, d) ==
    LET s == IF d < 0 THEN -1 ELSE 1
        g == GCD(Abs(n), Abs(d))
    IN  [k |-> "num", n |-> (s * n) \div g, d |-> (s * d) \div g]

Integer(n) == Rat(n, 1)
NaN == [k |-> "NaN", n |-> 0, d |-> 0]
Infinity == [k |-> "Infinity", n |-> 1, d |-> 0]
NegInfinity == [k |-> "-Infinity", n |-> -1, d |-> 0]
Null == [k |-> "null", n |-> 0, d |-> 0]

IsFinite(a) == a.k = "num"

\* a + b, a - b and a * b of finite numbers, over the least common
\* denominator and with the common factors divided out first.
Plus(a, b) ==
    LET g == GCD(a.d, b.d)
    IN  Rat(a.n * (b.d \div g) + b.n * (a.d \div g), (a.d \div g) * b.d)
Minus(a, b) == Plus(a, [b EXCEPT !.n = -b.n])
Mult(a, b) ==
    LET g1 == GCD(Abs(a.n), b.d)
        g2 == GCD(Abs(b.n), a.d)
    IN  Rat((a.n \div g1) * (b.n \div g2), (a.d \div g2) * (b.d \div g1))

\* a / b of finite numbers: a division by zero is not an error.
Over(a, b) ==
    IF b.n # 0 THEN Mult(a, Rat(b.d, b.n))
    ELSE IF a.n = 0 THEN NaN
    ELSE IF a.n > 0 THEN Infinity ELSE NegInfinity

\* x * c for a finite c > 0 and any x.
Scaled(x, c) == IF IsFinite(x) THEN Mult(x, c) ELSE x

\* a < b and a > b: false when either side is NaN.
Less(a, b) ==
    CASE a.k = "NaN" \/ b.k = "NaN" -> FALSE
      [] a.k = "-Infinity" -> b.k # "-Infinity"
      [] a.k = "Infinity" -> FALSE
      [] b.k = "-Infinity" -> FALSE
      [] b.k = "Infinity" -> TRUE
      [] OTHER -> a.n * b.d < b.n * a.d

Greater(a, b) == Less(b, a)

\* Math.round(a * 100) / 100 of a finite a: Math.round is floor(x + 0.5).
Round2(a) == Rat((200 * a.n + a.d) \div (2 * a.d), 100)

RECURSIVE SumNum(_)
\* values.reduce((sum, v) => sum + v, 0)
SumNum(s) == IF s = <<>> THEN Integer(0) ELSE Plus(SumNum(SubSeq(s, 1, Len(s) - 1)), s[Len(s)])

(***************************************************************************)
(* The calendar of the aggregation operators $year, $month, $dayOfMonth    *)
(* and $week (UTC), on a clock of TicksPerDay ticks a day and a calendar   *)
(* of equal months.                                                        *)
(***************************************************************************)
TicksPerDay == 2
DaysPerWeek == 2
DaysPerMonth == 3
MonthsPerYear == 12
DaysPerYear == DaysPerMonth * MonthsPerYear
EpochYear == 1970

DayNumber(t) == t \div TicksPerDay
Year(t) == EpochYear + (DayNumber(t) \div DaysPerYear)
DayOfYear(t) == DayNumber(t) % DaysPerYear
Month(t) == 1 + (DayOfYear(t) \div DaysPerMonth)
DayOfMonth(t) == 1 + (DayOfYear(t) % DaysPerMonth)
Week(t) == DayOfYear(t) \div DaysPerWeek

Periods == {"daily", "weekly", "monthly", "quarterly"}

\* getGroupStage(period): the _id of the $group stage for a timestamp.  An
\* unknown period groups as daily.
getGroupStage(period, t) ==
    CASE period = "weekly" -> <<Year(t), Week(t)>>
      [] period = "monthly" -> <<Year(t), Month(t)>>
      [] period = "quarterly" ->
            <<Year(t), IF Month(t) <= 3 THEN 1
                       ELSE IF Month(t) <= 6 THEN 2
                       ELSE IF Month(t) <= 9 THEN 3 ELSE 4>>
      [] OTHER -> <<Year(t), Month(t), DayOfMonth(t)>>

\* The order of { $sort: { _id: 1 } } on _id documents of equal shape:
\* field by field.
RECURSIVE IdBefore(_, _)
IdBefore(a, b) ==
    /\ a # <<>>
    /\ \/ a[1] < b[1]
       \/ a[1] = b[1] /\ IdBefore(Tail(a), Tail(b))

RECURSIVE SortIds(_)
SortIds(S) ==
    IF S = {} THEN <<>>
    ELSE LET m == CHOOSE a \in S : \A b \in S \ {a} : IdBefore(a, b)
         IN  <<m>> \o SortIds(S \ {m})

SetMax(S) == CHOOSE a \in S : \A b \in S : b <= a
SetMin(S) == CHOOSE a \in S : \A b \in S : a <= b

RECURSIVE SetSum(_, _)
\* The sum of f[i] over the indices of I.
SetSum(f, I) ==
    IF I = {} THEN 0
    ELSE LET i == CHOOSE j \in I : TRUE IN f[i] + SetSum(f, I \ {i})

\* The $match stage without the upper bound of the window.
matchStageNoUpperBound(ledger, productId, from, to) ==
    {i \in DOMAIN ledger :
        /\ ledger[i].productId = productId
        /\ from.given => ledger[i].timestamp >= from.value}

\* The $match stage of getHistoricalData: the positions of the documents
\* of the product with from <= timestamp <= to, each bound only if given.
matchStage(ledger, productId, from, to) ==
    {i \in DOMAIN ledger :
        /\ ledger[i].productId = productId
        /\ from.given => ledger[i].timestamp >= from.value
        /\ to.given => ledger[i].timestamp <= to.value}

\* The $group stage with the level of the first document as the average.
groupDocumentFirstLevel(ledger, id, I) ==
    [_id |-> id,
     date |-> SetMin({ledger[i].timestamp : i \in I}),
     avgStockLevel |-> Integer(ledger[SetMin(I)].stockLevel),
     minStockLevel |-> SetMin({ledger[i].stockLevel : i \in I}),
     maxStockLevel |-> SetMax({ledger[i].stockLevel : i \in I}),
     totalChange |-> SetSum([i \in I |-> ledger[i].change], I),
     recordCount |-> Cardinality(I)]

\* The document the $group stage makes of the matched documents I.
groupDocument(ledger, id, I) ==
    [_id |-> id,
     date |-> SetMin({ledger[i].timestamp : i \in I}),
     avgStockLevel |-> Rat(SetSum([i \in I |-> ledger[i].stockLevel], I), Cardinality(I)),
     minStockLevel |-> SetMin({ledger[i].stockLevel : i \in I}),
     maxStockLevel |-> SetMax({ledger[i].stockLevel : i \in I}),
     totalChange |-> SetSum([i \in I |-> ledger[i].change], I),
     recordCount |-> Cardinality(I)]

\* StockAnalysisService.getHistoricalData: $match, $sort by timestamp,
\* $group, $sort by _id.
getHistoricalData(ledger, productId, from, to, period) ==
    LET M == matchStage(ledger, productId, from, to)
        ids == SortIds({getGroupStage(period, ledger[i].timestamp) : i \in M})
    IN  [b \in DOMAIN ids |->
            groupDocument(ledger, ids[b],
                {i \in M : getGroupStage(period, ledger[i].timestamp) = ids[b]})]

(***************************************************************************)
(* The analytical reads of StockAnalysisService, each one query of the     *)
(* strict ledger followed by an in-memory fold.                            *)
(***************************************************************************)
\* req.query of GET /history; period "" is a query without period.
HistoryQuery(productId, from, to, period) ==
    [productId |-> productId, from |-> from, to |-> to, period |-> period]

QueryTimes == {1, 2}
QueryBounds == {NoTimestamp} \cup {At(t) : t \in QueryTimes}

HistoryQueries ==
    { HistoryQuery("P1", f, t, per) :
        f \in QueryBounds, t \in QueryBounds, per \in Periods \cup {""} } \cup
    { HistoryQuery("P2", NoTimestamp, NoTimestamp, ""),
      HistoryQuery("", NoTimestamp, NoTimestamp, "daily"),
      HistoryQuery("P1", BadTimestamp, NoTimestamp, "daily"),
      HistoryQuery("P1", NoTimestamp, BadTimestamp, "daily"),
      HistoryQuery("P1", NoTimestamp, NoTimestamp, "yearly") }

\* express-validator chains of GET /history.
HistoryErrors(q) ==
    {f \in {"productId"} : q.productId = ""} \cup
    {f \in {"from"} : q.from.given /\ ~q.from.iso} \cup
    {f \in {"to"} : q.to.given /\ ~q.to.iso} \cup
    {f \in {"period"} : q.period \notin Periods \cup {""}}

\* A GET route of StockAnalysisService: 400 with the fields that failed
\* validation, or 200 with the data the service returned and the query,
\* its defaults filled in.
AnalyticalRead(kind, errors, query, data) ==
    /\ CanStart
    /\ res' = IF errors # {}
              THEN Response(kind, 400, errors, "", "", 0)
              ELSE [Response(kind, 200, {}, "", query.productId, 0)
                       EXCEPT !.query = query, !.data = data]
    /\ UNCHANGED <<histLedger, tsLedger, sseClients, broken, now, conc, cap, stockLevels, inflight>>

\* GET /api/stocks/history -> getHistoricalData
GetHistory(q) ==
    LET period == IF q.period = "" THEN "daily" ELSE q.period
    IN  AnalyticalRead("history", HistoryErrors(q), [q EXCEPT !.period = period],
            getHistoricalData(histLedger, q.productId, q.from, q.to, period))

\* calculateMovingAverage with the average left unrounded.
calculateMovingAverageUnrounded(data, window) ==
    [i \in DOMAIN data |->
        IF i - 1 < window - 1 THEN Null
        ELSE LET windowData == SubSeq(data, i - window + 1, i)
             IN  Over(SumNum([j \in DOMAIN windowData |-> windowData[j].avgStockLevel]),
                      Integer(window))]

\* StockAnalysisService.calculateMovingAverage, for a window >= 1 (position
\* i of the source is position i + 1 here).
calculateMovingAverage(data, window) ==
    [i \in DOMAIN data |->
        IF i - 1 < window - 1 THEN Null
        ELSE LET windowData == SubSeq(data, i - window + 1, i)
                 avg == Over(SumNum([j \in DOMAIN windowData |->
                                        windowData[j].avgStockLevel]),
                             Integer(window))
             IN  Round2(avg)]

\* determineTrend with the threshold of 'increasing' at 0 percent.
determineTrendAnyRise(data, movingAverage) ==
    IF Len(movingAverage) < 2 THEN "insufficient_data"
    ELSE LET recentValues == SelectSeq(movingAverage, LAMBDA val : val # Null)
         IN  IF Len(recentValues) < 2 THEN "insufficient_data"
             ELSE LET half == Len(recentValues) \div 2
                      firstHalf == SubSeq(recentValues, 1, half)
                      secondHalf == SubSeq(recentValues, half + 1, Len(recentValues))
                      firstAvg == Over(SumNum(firstHalf), Integer(Len(firstHalf)))
                      secondAvg == Over(SumNum(secondHalf), Integer(Len(secondHalf)))
                      changePercent ==
                          Scaled(Over(Minus(secondAvg, firstAvg), firstAvg), Integer(100))
                  IN  IF Greater(changePercent, Integer(0)) THEN "increasing"
                      ELSE IF Less(changePercent, Integer(-5)) THEN "decreasing"
                      ELSE "stable"

\* determineTrend without the test of the number of non-null values.
determineTrendUnchecked(data, movingAverage) ==
    LET recentValues == SelectSeq(movingAverage, LAMBDA val : val # Null)
        half == Len(recentValues) \div 2
        firstHalf == SubSeq(recentValues, 1, half)
        secondHalf == SubSeq(recentValues, half + 1, Len(recentValues))
        firstAvg == Over(SumNum(firstHalf), Integer(Len(firstHalf)))
        secondAvg == Over(SumNum(secondHalf), Integer(Len(secondHalf)))
        changePercent ==
            IF IsFinite(firstAvg) /\ IsFinite(secondAvg)
            THEN Scaled(Over(Minus(secondAvg, firstAvg), firstAvg), Integer(100))
            ELSE NaN
    IN  IF Greater(changePercent, Integer(5)) THEN "increasing"
        ELSE IF Less(changePercent, Integer(-5)) THEN "decreasing"
        ELSE "stable"

\* StockAnalysisService.determineTrend.  The halves are
\* slice(0, floor(n / 2)) and slice(floor(n / 2)); the division by firstAvg
\* is a JavaScript division.
determineTrend(data, movingAverage) ==
    IF Len(movingAverage) < 2 THEN "insufficient_data"
    ELSE LET recentValues == SelectSeq(movingAverage, LAMBDA val : val # Null)
         IN  IF Len(recentValues) < 2 THEN "insufficient_data"
             ELSE LET half == Len(recentValues) \div 2
                      firstHalf == SubSeq(recentValues, 1, half)
                      secondHalf == SubSeq(recentValues, half + 1, Len(recentValues))
                      firstAvg == Over(SumNum(firstHalf), Integer(Len(firstHalf)))
                      secondAvg == Over(SumNum(secondHalf), Integer(Len(secondHalf)))
                      changePercent ==
                          Scaled(Over(Minus(secondAvg, firstAvg), firstAvg), Integer(100))
                  IN  IF Greater(changePercent, Integer(5)) THEN "increasing"
                      ELSE IF Less(changePercent, Integer(-5)) THEN "decreasing"
                      ELSE "stable"

\* StockAnalysisService.getTrendAnalysis
getTrendAnalysis(ledger, productId, period, window) ==
    LET historicalData == getHistoricalData(ledger, productId, NoTimestamp, NoTimestamp, period)
        movingAverage == calculateMovingAverage(historicalData, window)
    IN  IF Len(historicalData) = 0
        THEN [data |-> <<>>, movingAverage |-> <<>>, trend |-> "insufficient_data"]
        ELSE [data |-> historicalData, movingAverage |-> movingAverage,
              trend |-> determineTrend(historicalData, movingAverage),
              window |-> window]

\* req.query of GET /trend; period "" and NoWindow are a query without
\* the parameter.
NoWindow == [given |-> FALSE, value |-> 7]
Window(n) == [given |-> TRUE, value |-> n]

TrendQuery(productId, period, window) ==
    [productId |-> productId, period |-> period, window |-> window]

TrendPeriods == {"daily", "weekly", "monthly"}

TrendQueries ==
    { TrendQuery("P1", "daily", Window(n)) : n \in 1..MaxWindow } \cup
    { TrendQuery("P1", "", NoWindow),
      TrendQuery("P1", "weekly", Window(1)),
      TrendQuery("P1", "monthly", Window(2)),
      TrendQuery("P2", "", NoWindow),
      TrendQuery("", "daily", NoWindow),
      TrendQuery("P1", "quarterly", NoWindow),
      TrendQuery("P1", "daily", Window(0)) }

\* express-validator chains of GET /trend.
TrendErrors(q) ==
    {f \in {"productId"} : q.productId = ""} \cup
    {f \in {"period"} : q.period \notin TrendPeriods \cup {""}} \cup
    {f \in {"window"} : q.window.given /\ q.window.value < 1}

\* GET /api/stocks/trend -> getTrendAnalysis
GetTrend(q) ==
    LET period == IF q.period = "" THEN "daily" ELSE q.period
        window == q.window.value
    IN  AnalyticalRead("trend", TrendErrors(q),
            [q EXCEPT !.period = period, !.window = window],
            getTrendAnalysis(histLedger, q.productId, period, window))

RECURSIVE SortTimes(_)
\* The timestamps of a bag of documents in ascending order; B maps a
\* timestamp to the number of documents that carry it.
SortTimes(B) ==
    IF BagToSet(B) = {} THEN <<>>
    ELSE LET t == SetMin(BagToSet(B))
         IN  <<t>> \o SortTimes(B (-) SetToBag({t}))

\* StockHistory.find({ productId, reason: 'restock' }, { timestamp: 1 },
\* { sort: { timestamp: 1 } }): the timestamps of the restock documents of
\* the product, ascending.
findRestocks(ledger, productId) ==
    LET I == {i \in DOMAIN ledger :
                 ledger[i].productId = productId /\ ledger[i].reason = "restock"}
        T == {ledger[i].timestamp : i \in I}
    IN  SortTimes([t \in T |-> Cardinality({i \in I : ledger[i].timestamp = t})])

\* calculateRestockIntervals: the gaps between consecutive restocks, in
\* days.
calculateRestockIntervals(restockRecords) ==
    [i \in 1..(Len(restockRecords) - 1) |->
        Rat(restockRecords[i + 1] - restockRecords[i], TicksPerDay)]

\* calculateAverageInterval
calculateAverageInterval(intervals) == Over(SumNum(intervals), Integer(Len(intervals)))

\* predictNextRestock counting from the first restock.
predictNextRestockFromFirst(restockRecords, averageInterval) ==
    LET lastRestock == restockRecords[1]
        next == Plus(Integer(lastRestock), Mult(averageInterval, Integer(TicksPerDay)))
    IN  IF IsFinite(averageInterval) THEN Integer(next.n \div next.d) ELSE NaN

\* predictNextRestock: new Date(lastRestock.getTime() + averageInterval
\* days), a Date holding whole ticks, and an invalid Date (NaN) when the
\* sum is not a number.
predictNextRestock(restockRecords, averageInterval) ==
    LET lastRestock == restockRecords[Len(restockRecords)]
        next == Plus(Integer(lastRestock), Mult(averageInterval, Integer(TicksPerDay)))
    IN  IF IsFinite(averageInterval) THEN Integer(next.n \div next.d) ELSE NaN

\* The variance of the intervals around avg.
variance(intervals, avg) ==
    Over(SumNum([i \in DOMAIN intervals |->
                    Mult(Minus(intervals[i], avg), Minus(intervals[i], avg))]),
         Integer(Len(intervals)))

\* The square of coefficientOfVariation = Math.sqrt(variance) / avg for
\* avg >= 0: the quotient itself is not rational.  With avg = 0 the
\* division is by zero: NaN for a zero deviation, Infinity otherwise.
coefficientOfVariationSquared(intervals, avg) ==
    LET v == variance(intervals, avg)
    IN  IF avg.n = 0 THEN (IF v.n = 0 THEN NaN ELSE Infinity)
        ELSE Over(v, Mult(avg, avg))

\* The number 1 - Math.sqrt(q) for a rational q with 0 < q < 1.
OneMinusSqrt(q) == [k |-> "1-sqrt", n |-> q.n, d |-> q.d]

\* Math.max(0, Math.min(1, 1 - c)) for c with the square c2, c >= 0.
Clamp01OneMinus(c2) ==
    CASE c2.k = "NaN" -> NaN
      [] c2.k = "Infinity" -> Integer(0)
      [] c2.n = 0 -> Integer(1)
      [] c2.n >= c2.d -> Integer(0)
      [] OTHER -> OneMinusSqrt(c2)

\* calculateConfidence
calculateConfidence(intervals, averageInterval) ==
    IF Len(intervals) < 2 THEN Integer(0)
    ELSE Clamp01OneMinus(coefficientOfVariationSquared(intervals, averageInterval))

\* determinePatternType: c < 0.1, c < 0.3 and c < 0.5 on the square of c.
determinePatternType(intervals) ==
    IF Len(intervals) < 2 THEN "insufficient_data"
    ELSE LET c2 == coefficientOfVariationSquared(intervals,
                       calculateAverageInterval(intervals))
         IN  IF Less(c2, Rat(1, 100)) THEN "highly_regular"
             ELSE IF Less(c2, Rat(9, 100)) THEN "regular"
             ELSE IF Less(c2, Rat(25, 100)) THEN "somewhat_irregular"
             ELSE "irregular"

\* analyzeRestockPattern content with one restock.
analyzeRestockPatternOneRestock(ledger, productId) ==
    LET restockRecords == findRestocks(ledger, productId)
        intervals == calculateRestockIntervals(restockRecords)
        averageInterval == calculateAverageInterval(intervals)
    IN  IF Len(restockRecords) < 1
        THEN [pattern |-> "insufficient_data", averageInterval |-> Null,
              nextPredictedRestock |-> Null, confidence |-> Integer(0)]
        ELSE [pattern |-> determinePatternType(intervals),
              averageInterval |-> averageInterval,
              nextPredictedRestock |-> predictNextRestock(restockRecords, averageInterval),
              confidence |-> calculateConfidence(intervals, averageInterval),
              intervals |-> intervals,
              totalRestocks |-> Len(restockRecords)]

\* StockAnalysisService.analyzeRestockPattern
analyzeRestockPattern(ledger, productId) ==
    LET restockRecords == findRestocks(ledger, productId)
        intervals == calculateRestockIntervals(restockRecords)
        averageInterval == calculateAverageInterval(intervals)
    IN  IF Len(restockRecords) < 2
        THEN [pattern |-> "insufficient_data", averageInterval |-> Null,
              nextPredictedRestock |-> Null, confidence |-> Integer(0)]
        ELSE [pattern |-> determinePatternType(intervals),
              averageInterval |-> averageInterval,
              nextPredictedRestock |-> predictNextRestock(restockRecords, averageInterval),
              confidence |-> calculateConfidence(intervals, averageInterval),
              intervals |-> intervals,
              totalRestocks |-> Len(restockRecords)]

\* GET /api/stocks/restock-pattern -> analyzeRestockPattern
GetRestockPattern(productId) ==
    AnalyticalRead("restock-pattern", QueryErrors(productId),
        [productId |-> productId], analyzeRestockPattern(histLedger, productId))

(***************************************************************************)
(* Strict ledgers with a history: what sequences of valid appends to       *)
(* POST /api/stocks/update leave behind, each append a gap of clock ticks  *)
(* after the one before.                                                   *)
(***************************************************************************)
Move(gap, productId, change, reason) ==
    [gap |-> gap, productId |-> productId, change |-> change, reason |-> reason]

LastTime(ledger) == IF ledger = <<>> THEN 0 ELSE ledger[Len(ledger)].timestamp

\* The ledgers after one more append to ledger: none if recordStockChange
\* throws.
Appended(ledger, m) ==
    { save(ledger, r.doc[1]) :
        r \in { x \in { recordStockChange(lvl, m.productId, m.change, m.reason,
                                           LastTime(ledger) + m.gap) :
                          lvl \in getLatestStockLevel(ledger, m.productId) } :
                ~x.thrown } }

RECURSIVE Ledgers(_, _)
\* The ledgers of at most n appends drawn from moves.
Ledgers(moves, n) ==
    IF n = 0 THEN { <<>> }
    ELSE LET S == Ledgers(moves, n - 1)
         IN  S \cup UNION { Appended(l, m) : l \in {x \in S : Len(x) = n - 1}, m \in moves }

\* Several appends a day: +100, -20 and -15 at the same instant, a tick
\* apart or a day apart.
DayMoves ==
    { Move(0, "P1", 100, "restock"), Move(TicksPerDay, "P1", 100, "restock"),
      Move(0, "P1", -20, "sale"), Move(1, "P1", -20, "sale"),
      Move(1, "P1", -15, "sale") }

\* One append a day.
DailyMoves ==
    { Move(TicksPerDay, "P1", c[1], c[2]) :
        c \in { <<10, "restock">>, <<1, "restock">>, <<0, "adjustment">>,
                <<-10, "sale">> } }

\* Restocks at the same instant, a day apart and a week apart, and sales
\* between them.
RestockMoves ==
    { Move(0, "P1", 1, "restock"), Move(TicksPerDay, "P1", 1, "restock"),
      Move(7 * TicksPerDay, "P1", 1, "restock"), Move(TicksPerDay, "P1", -1, "sale") }

\* The server with the strict ledger L, no request in flight.
InitFrom(L) ==
    /\ histLedger \in L
    /\ tsLedger = <<>>
    /\ sseClients = <<>>
    /\ broken = {}
    /\ now = LastTime(histLedger)
    /\ conc = 1
    /\ cap = MaxEntries
    /\ stockLevels = <<>>
    /\ inflight = EmptyBag
    /\ res = NoResponse

InitAggregate == InitFrom(Ledgers(DayMoves, MaxDayRecords))

InitTrend == InitFrom(Ledgers(DailyMoves, MaxDays) \cup Ledgers(DayMoves, MaxDayRecords))

InitPattern == InitFrom(Ledgers(RestockMoves, MaxRestocks))

Next ==
    \/ Tick
    \/ \E c \in Clients : SSEConnect(c)
    \/ \E c \in Clients : ClientBreak(c)
    \/ \E body \in UpdateBodies : StartUpdate(body)
    \/ \E h \in Running : BuildUpdate(h)
    \/ \E h \in Running : SaveUpdate(h)
    \/ \E h \in Running : RespondUpdate(h)
    \/ \E body \in RecordBodies : StartRecord(body)
    \/ \E h \in Running : SaveRecord(h)
    \/ \E h \in Running : RespondRecord(h)
    \/ \E p \in QueryProductIds : StartCurrent(p)
    \/ \E h \in Running : FallbackCurrent(h)
    \/ \E q \in HistoryQueries : GetHistory(q)
    \/ \E q \in TrendQueries : GetTrend(q)
    \/ \E p \in QueryProductIds : GetRestockPattern(p)

\* The whole server.
Spec == Init /\ [][Next]_vars

\* The whole server under callers that wait for each response before they
\* send the next request.
SpecSeq == InitSeq /\ [][Next]_vars

\* The two append routes, concurrently.
NextLedger ==
    \/ Tick
    \/ \E body \in UpdateBodies : StartUpdate(body)
    \/ \E h \in Running : BuildUpdate(h)
    \/ \E h \in Running : SaveUpdate(h)
    \/ \E h \in Running : RespondUpdate(h)
    \/ \E body \in RecordBodies : StartRecord(body)
    \/ \E h \in Running : SaveRecord(h)
    \/ \E h \in Running : RespondRecord(h)

SpecLedger == Init /\ [][NextLedger]_vars

\* The strict ledger with its readers: StockHistory, the routes of
\* /api/stocks over it and StockAnalysisService, queried with the product
\* only.
NextStrict ==
    \/ Tick
    \/ \E body \in UpdateBodies : StartUpdate(body)
    \/ \E h \in Running : BuildUpdate(h)
    \/ \E h \in Running : SaveUpdate(h)
    \/ \E h \in Running : RespondUpdate(h)
    \/ \E p \in QueryProductIds : StartCurrent(p)
    \/ \E h \in Running : FallbackCurrent(h)
    \/ \E p \in QueryProductIds :
          GetHistory(HistoryQuery(p, NoTimestamp, NoTimestamp, ""))
    \/ \E p \in QueryProductIds : GetTrend(TrendQuery(p, "", NoWindow))
    \/ \E p \in QueryProductIds : GetRestockPattern(p)

SpecStrict == Init /\ [][NextStrict]_vars

\* The two append routes and GET /current, which reads both ledgers.
NextRead ==
    \/ Tick
    \/ \E body \in UpdateBodies : StartUpdate(body)
    \/ \E h \in Running : BuildUpdate(h)
    \/ \E h \in Running : SaveUpdate(h)
    \/ \E h \in Running : RespondUpdate(h)
    \/ \E body \in RecordBodies : StartRecord(body)
    \/ \E h \in Running : SaveRecord(h)
    \/ \E h \in Running : RespondRecord(h)
    \/ \E p \in QueryProductIds : StartCurrent(p)
    \/ \E h \in Running : FallbackCurrent(h)

SpecRead == Init /\ [][NextRead]_vars

\* The same under callers that wait for each response.
SpecReadSeq == InitSeq /\ [][NextRead]_vars

\* The two append routes and the subscribers they publish to.
NextPublish ==
    \/ \E c \in Clients : SSEConnect(c)
    \/ \E c \in Clients : ClientBreak(c)
    \/ \E body \in UpdateBodies : StartUpdate(body)
    \/ \E h \in Running : BuildUpdate(h)
    \/ \E h \in Running : SaveUpdate(h)
    \/ \E h \in Running : RespondUpdate(h)
    \/ \E body \in RecordBodies : StartRecord(body)
    \/ \E h \in Running : SaveRecord(h)
    \/ \E h \in Running : RespondRecord(h)

SpecPublish == Init /\ [][NextPublish]_vars

\* getHistoricalData over ledgers with a history.
NextAggregate == \E q \in HistoryQueries : GetHistory(q)

SpecAggregate == InitAggregate /\ [][NextAggregate]_vars

\* getTrendAnalysis over ledgers with a history.
NextTrend == \E q \in TrendQueries : GetTrend(q)

SpecTrend == InitTrend /\ [][NextTrend]_vars

\* analyzeRestockPattern over ledgers with a history.
NextPattern == \E p \in QueryProductIds : GetRestockPattern(p)

SpecPattern == InitPattern /\ [][NextPattern]_vars


(***************************************************************************)
(* Vocabulary of the properties.                                           *)
(***************************************************************************)
Entries(ledger) == {ledger[i] : i \in DOMAIN ledger}

\* The entries of one product, in insertion order.
OfProduct(ledger, p) == SelectSeq(ledger, LAMBDA e : e.productId = p)

\* lvl is the level of an entry of p that no entry of p is later than, or 0
\* when p has no entry.
IsLatestLevel(ledger, p, lvl) ==
    LET es == OfProduct(ledger, p)
    IN  IF es = <<>> THEN lvl = 0
        ELSE \E i \in DOMAIN es :
                /\ es[i].stockLevel = lvl
                /\ \A j \in DOMAIN es : es[j].timestamp <= es[i].timestamp

RECURSIVE FoldStrict(_)
\* The changes of the entries added one after the other, from 0.
FoldStrict(es) ==
    IF es = <<>> THEN 0
    ELSE FoldStrict(SubSeq(es, 1, Len(es) - 1)) + es[Len(es)].change

RECURSIVE FoldClamped(_)
\* The same, clamped at 0 after every step.
FoldClamped(es) ==
    IF es = <<>> THEN 0
    ELSE Max(0, FoldClamped(SubSeq(es, 1, Len(es) - 1)) + es[Len(es)].change)

Quiescent == inflight = EmptyBag

IsAppend(h) == h.kind \in {"update", "record"}

\* The handler h takes a step: its record leaves the bag.
Steps(h) == CopiesIn(h, inflight') < CopiesIn(h, inflight)

\* C1: after every sequence of appends to one product, issued one after
\* the other, the latest level of the product is the fold of the changes
\* from 0: the plain sum of the accepted changes in the strict ledger, the
\* sum clamped at 0 after every step in the clamping ledger.
C1_LatestLevelIsFold ==
    Quiescent =>
        \A p \in ProductIds :
            /\ \A lvl \in getLatestStockLevel(histLedger, p) :
                  lvl = FoldStrict(OfProduct(histLedger, p))
            /\ \A r \in findOne(tsLedger, p) :
                  (IF r = <<>> THEN 0 ELSE r[1].stockLevel)
                      = FoldClamped(OfProduct(tsLedger, p))

\* C2: a strict append whose candidate level is negative answers with the
\* error 'Stock level cannot be negative' and writes nothing: its step
\* leaves both ledgers as they were, and no handler with a negative
\* candidate ever gets to build or save a document.
C2_NegativeAppendRejected ==
    /\ [](\A h \in Running :
            (h.kind = "update" /\ h.currentStockLevel + h.body.change.value < 0)
                => h.pc = "read")
    /\ [][\A h \in Running :
            (/\ h.kind = "update"
             /\ h.pc = "read"
             /\ h.currentStockLevel + h.body.change.value < 0
             /\ Steps(h))
            => /\ res'.status = 400
               /\ res'.error = "Stock level cannot be negative"
               /\ histLedger' = histLedger
               /\ tsLedger' = tsLedger]_vars

\* A strict append was rejected on a ledger that already held an entry.
C2_Witness ==
    /\ res.kind = "update"
    /\ res.error = "Stock level cannot be negative"
    /\ histLedger # <<>>

\* C3: appends to one product are serialized: at no time are two appends
\* to the same product of the same ledger both between their read of the
\* latest level and their write.
C3_AppendsSerialized ==
    \A h1, h2 \in Running :
        (/\ IsAppend(h1) /\ IsAppend(h2)
         /\ h1.pc \in {"read", "built"} /\ h2.pc \in {"read", "built"}
         /\ h1.kind = h2.kind
         /\ h1.body.productId = h2.body.productId)
        => (h1 = h2 /\ CopiesIn(h1, inflight) = 1)

\* C4: every stored entry has a non-negative stock level, in both ledgers.
C4_LevelsNonNegative ==
    /\ \A e \in Entries(histLedger) : e.stockLevel >= 0
    /\ \A e \in Entries(tsLedger) : e.stockLevel >= 0

\* The clamping ledger stored a level it had to clamp, and the strict
\* ledger holds an entry.
C4_Witness ==
    /\ \E e \in Entries(tsLedger) : e.change < 0 /\ e.stockLevel = 0
    /\ histLedger # <<>>

\* C5: the ledgers are append-only.  A step that changes a ledger is the
\* save of one handler: it appends that handler's document and nothing else
\* (the entries written before stay as they were), and the other ledger is
\* untouched.  Every other step (reads, analytical requests, rejected
\* appends, responses) leaves both ledgers unchanged.
C5_AppendOnly ==
    [][/\ histLedger' # histLedger =>
            /\ \E h \in Running :
                  /\ h.kind = "update" /\ h.pc = "built" /\ Steps(h)
                  /\ histLedger' = Append(histLedger, h.doc[1])
            /\ tsLedger' = tsLedger
       /\ tsLedger' # tsLedger =>
            /\ \E h \in Running :
                  /\ h.kind = "record" /\ h.pc = "built" /\ Steps(h)
                  /\ tsLedger' = Append(tsLedger, h.doc[1])
            /\ histLedger' = histLedger
       /\ (res' # res /\ res'.status # 201) =>
            (histLedger' = histLedger /\ tsLedger' = tsLedger)]_vars

\* An analytical request was answered while a ledger held two entries.
C5_Witness ==
    /\ res.kind \in {"history", "trend", "restock-pattern"}
    /\ res.status = 200
    /\ Len(histLedger) = 2


\* The handler h is new: its record enters the bag.
Starts(h) == CopiesIn(h, inflight') > CopiesIn(h, inflight)

\* C6: getLatestStockLevel returns the stock level of an entry of the
\* product that has the greatest timestamp, and 0 when the product has no
\* entry: both where recordStockChange calls it and where GET /current
\* falls back to it.
C6_LatestLevelRead ==
    [][/\ \A h \in BagToSet(inflight') :
            (h.kind = "update" /\ h.pc = "read" /\ Starts(h))
                => IsLatestLevel(histLedger, h.body.productId, h.currentStockLevel)
       /\ \A h \in Running :
            (h.kind = "current" /\ h.pc = "fallback" /\ Steps(h))
                => /\ res'.status = 200
                   /\ IsLatestLevel(histLedger, h.body.productId, res'.level)]_vars

\* GET /current answered with the level of the later of two strict entries
\* that differ in timestamp and level.
C6_Witness ==
    /\ res.kind = "current"
    /\ res.status = 200
    /\ \E i, j \in DOMAIN histLedger :
          /\ histLedger[i].productId = res.productId
          /\ histLedger[j].productId = res.productId
          /\ histLedger[i].timestamp < histLedger[j].timestamp
          /\ histLedger[i].stockLevel # histLedger[j].stockLevel
          /\ res.level = histLedger[j].stockLevel

\* C7: appends to different products are independent.  A step that changes
\* the entries of a product, or the levels getLatestStockLevel can return
\* for it, is the save of an append to that product; and an append is
\* never blocked: whatever else is in flight, a suspended handler can take
\* its next step, and a new append can start as long as the callers'
\* concurrency and the explored ledger size allow one.
C7_ProductsIndependent ==
    /\ [](\A h \in Running :
            /\ (h.kind = "update" /\ h.pc = "read") => ENABLED BuildUpdate(h)
            /\ (h.kind = "update" /\ h.pc = "built") => ENABLED SaveUpdate(h)
            /\ (h.kind = "update" /\ h.pc = "saved") => ENABLED RespondUpdate(h)
            /\ (h.kind = "record" /\ h.pc = "built") => ENABLED SaveRecord(h)
            /\ (h.kind = "record" /\ h.pc = "saved") => ENABLED RespondRecord(h))
    /\ []((CanStart /\ CanAppend) =>
            /\ ENABLED StartUpdate(Body("P2", Num(1), "restock", NoTimestamp))
            /\ ENABLED StartRecord(Body("P2", Num(1), "return", NoTimestamp)))
    /\ [][\A p \in ProductIds :
            (\/ OfProduct(histLedger', p) # OfProduct(histLedger, p)
             \/ OfProduct(tsLedger', p) # OfProduct(tsLedger, p)
             \/ getLatestStockLevel(histLedger', p) # getLatestStockLevel(histLedger, p)
             \/ findOne(tsLedger', p) # findOne(tsLedger, p))
            => \E h \in Running :
                  h.pc = "built" /\ Steps(h) /\ h.body.productId = p]_vars

\* An append to P2 was saved while an append to P1 was between its read and
\* its write.
C7_Witness ==
    /\ \E h \in Running : h.body.productId = "P1" /\ h.pc \in {"read", "built"}
    /\ \E h \in Running : h.body.productId = "P2" /\ h.pc = "saved"

\* C8: a failed publication never fails the append.  The handler that
\* resumes after its save answers 201 with the saved level, whether or
\* not a write to a subscriber throws, and the document is in its ledger.
C8_PublishNeverFailsAppend ==
    [][\A h \in Running :
          (IsAppend(h) /\ h.pc = "saved" /\ Steps(h))
          => /\ res'.status = 201
             /\ res'.productId = h.doc[1].productId
             /\ res'.level = h.doc[1].stockLevel
             /\ h.kind = "update" => h.doc[1] \in Entries(histLedger')
             /\ h.kind = "record" => h.doc[1] \in Entries(tsLedger')]_vars

\* The one append so far was answered with 201 and its broadcast dropped a
\* subscriber whose write threw.
C8_Witness ==
    /\ res.status = 201
    /\ Len(histLedger) + Len(tsLedger) = 1
    /\ Quiescent
    /\ broken # {}
    /\ sseClients = <<>>

\* C9: an append request with an empty productId, a non-numeric change or
\* a reason outside the enum of its ledger is answered 400 with the
\* validation errors before any ledger access: no handler with such a body
\* is ever suspended at a read or a write, and the step that sends the
\* validation errors leaves the ledgers and the suspended handlers as they
\* were.
C9_InvalidInputRejected ==
    /\ [](\A h \in Running :
            /\ IsAppend(h) => (h.body.productId # "" /\ h.body.change.numeric)
            /\ h.kind = "update" => h.body.reason \in {"restock", "sale", "adjustment"}
            /\ h.kind = "record" =>
                 h.body.reason \in {"restock", "sale", "adjustment", "return", "damage"})
    /\ [][(res' # res /\ res'.errors # {})
            => /\ res'.status = 400
               /\ UNCHANGED <<histLedger, tsLedger, inflight>>]_vars

\* A request was answered with validation errors while the strict ledger
\* held an entry.
C9_Witness ==
    /\ res.kind = "update"
    /\ res.status = 400
    /\ "reason" \in res.errors
    /\ histLedger # <<>>

\* C10 as claimed: GET /current of a product with strict-ledger entries
\* returns the stock level of the change recorded last in the strict
\* ledger.
C10_CurrentIsLastStrictChange ==
    [][(/\ res' # res
        /\ res'.kind = "current"
        /\ res'.status = 200
        /\ OfProduct(histLedger, res'.productId) # <<>>)
       => LET es == OfProduct(histLedger, res'.productId)
          IN  res'.level = es[Len(es)].stockLevel]_vars

\* C10 as amended: GET /current returns the level of a greatest-timestamp
\* entry of the time-series ledger when its read of that ledger finds an
\* entry of the product, and only when it finds none the value of
\* getLatestStockLevel: the level of a greatest-timestamp entry of the
\* strict ledger, or 0.
C10_CurrentPrefersTimeSeries ==
    [][/\ (res' # res /\ res'.kind = "current" /\ res'.status = 200) =>
            IF inflight' = inflight
            THEN /\ OfProduct(tsLedger, res'.productId) # <<>>
                 /\ IsLatestLevel(tsLedger, res'.productId, res'.level)
            ELSE IsLatestLevel(histLedger, res'.productId, res'.level)
       /\ \A h \in BagToSet(inflight') :
            (h.kind = "current" /\ Starts(h))
                => OfProduct(tsLedger, h.body.productId) = <<>>]_vars

\* GET /current answered with the time-series level of a product whose
\* strict ledger says otherwise.
C10_Witness ==
    /\ res.kind = "current"
    /\ res.status = 200
    /\ Quiescent
    /\ OfProduct(histLedger, res.productId) # <<>>
    /\ OfProduct(tsLedger, res.productId) # <<>>
    /\ IsLatestLevel(tsLedger, res.productId, res.level)
    /\ ~IsLatestLevel(histLedger, res.productId, res.level)

(***************************************************************************)
(* Properties of the analytical reads.                                     *)
(***************************************************************************)
\* The positions of the entries of the product of q whose timestamp lies
\* in the inclusive window of q; a bound that is not given does not bound.
InWindow(q) ==
    {i \in DOMAIN histLedger :
        /\ histLedger[i].productId = q.productId
        /\ q.from.given => q.from.value <= histLedger[i].timestamp
        /\ q.to.given => histLedger[i].timestamp <= q.to.value}

\* The step answers a request of the kind with 200.
Answers(kind) == res' # res /\ res'.kind = kind /\ res'.status = 200

\* The last response is a 200 to a request of the kind.
Answered(kind) == res.kind = kind /\ res.status = 200

\* C11: a valid GET /history whose window contains no entry of the product
\* is answered 200 with an empty bucket list, for every period and every
\* choice of the bounds.
C11_EmptyWindowEmptyList ==
    /\ [][(res' # res /\ res'.kind = "history")
             => (res'.status = 200 \/ (res'.status = 400 /\ res'.errors # {}))]_vars
    /\ [][(Answers("history") /\ InWindow(res'.query) = {}) => res'.data = <<>>]_vars

\* An empty bucket list was returned for a product that has entries, all
\* of them outside the window.
C11_Witness ==
    /\ res.kind = "history"
    /\ res.status = 200
    /\ res.data = <<>>
    /\ \E i \in DOMAIN histLedger : histLedger[i].productId = res.productId

\* C12: the buckets of a valid daily GET /history partition the entries of
\* the window by calendar day: every entry of the window is counted in the
\* bucket of its day and in no other, each bucket carries the count, the
\* sum of the changes and the minimum, maximum and mean of the levels of
\* its entries, and the buckets come in ascending order of their day.
C12_DailyBuckets ==
    [][(Answers("history") /\ res'.query.period = "daily")
              => LET B == res'.data
                     W == InWindow(res'.query)
                     In(b) == {i \in W : DayNumber(histLedger[i].timestamp)
                                            = DayNumber(B[b].date)}
                 IN  /\ \A i \in W : \E b \in DOMAIN B : i \in In(b)
                     /\ \A a, b \in DOMAIN B :
                           a < b => DayNumber(B[a].date) < DayNumber(B[b].date)
                     /\ \A b \in DOMAIN B :
                           /\ B[b].recordCount = Cardinality(In(b))
                           /\ B[b].recordCount > 0
                           /\ B[b].totalChange =
                                 SetSum([i \in In(b) |-> histLedger[i].change], In(b))
                           /\ \A i \in In(b) :
                                 /\ B[b].minStockLevel <= histLedger[i].stockLevel
                                 /\ histLedger[i].stockLevel <= B[b].maxStockLevel
                           /\ \E i \in In(b) : B[b].minStockLevel = histLedger[i].stockLevel
                           /\ \E i \in In(b) : B[b].maxStockLevel = histLedger[i].stockLevel
                           /\ B[b].avgStockLevel.k = "num"
                           /\ B[b].avgStockLevel.n * B[b].recordCount =
                                 B[b].avgStockLevel.d *
                                 SetSum([i \in In(b) |-> histLedger[i].stockLevel], In(b))]_vars

\* The appends +100, -20, -15 of one day came back as one bucket with the
\* average (100 + 80 + 65) / 3 and the total change 65.
C12_Witness ==
    /\ res.kind = "history"
    /\ res.status = 200
    /\ Len(res.data) = 1
    /\ res.data[1].recordCount = 3
    /\ res.data[1].avgStockLevel = Rat(245, 3)
    /\ res.data[1].totalChange = 65
    /\ res.data[1].minStockLevel = 65
    /\ res.data[1].maxStockLevel = 100
    /\ \E i, j \in DOMAIN histLedger :
          histLedger[i].timestamp # histLedger[j].timestamp

\* The values of a moving average that are not null.
NonNull(movingAverage) == SelectSeq(movingAverage, LAMBDA v : v # Null)

\* The arithmetic mean of a non-empty sequence of finite numbers.
Mean(values) == Over(SumNum(values), Integer(Len(values)))

\* m is x rounded to 2 decimals, halves rounded up.
IsRounded2(m, x) ==
    /\ m.k = "num"
    /\ 100 % m.d = 0
    /\ ~Less(x, Minus(m, Rat(1, 200)))
    /\ Less(x, Plus(m, Rat(1, 200)))

\* C13: the moving average GET /trend returns has one position for every
\* bucket; position i (from 0) is null for i < window - 1 and otherwise the
\* mean of avgStockLevel over the buckets i - window + 1 .. i, rounded to 2
\* decimals.
C13_MovingAverage ==
    Answered("trend")
        => LET B == res.data.data
               MA == res.data.movingAverage
               window == res.query.window
           IN  /\ Len(MA) = Len(B)
               /\ \A p \in DOMAIN MA :
                     IF p - 1 < window - 1 THEN MA[p] = Null
                     ELSE IsRounded2(MA[p],
                              Mean([j \in 1..window |-> B[p - window + j].avgStockLevel]))

\* Window 3 over buckets with the averages 10, 20, 30, 40, 50 gave
\* [null, null, 20, 30, 40].
C13_Witness ==
    /\ Answered("trend")
    /\ res.query.window = 3
    /\ [b \in DOMAIN res.data.data |-> res.data.data[b].avgStockLevel]
          = <<Integer(10), Integer(20), Integer(30), Integer(40), Integer(50)>>
    /\ res.data.movingAverage = <<Null, Null, Integer(20), Integer(30), Integer(40)>>

\* The verdict on a first and a second half of the non-null moving-average
\* values, for a first half with a mean other than 0: the change from the
\* mean of the first half to the mean of the second, in percent of the
\* first, against +5 and -5.
Verdict(firstHalf, secondHalf) ==
    LET changePercent ==
            Mult(Over(Minus(Mean(secondHalf), Mean(firstHalf)), Mean(firstHalf)),
                 Integer(100))
    IN  IF Greater(changePercent, Integer(5)) THEN "increasing"
        ELSE IF Less(changePercent, Integer(-5)) THEN "decreasing"
        ELSE "stable"

C15_InsufficientData ==
    Answered("trend")
        => LET V == NonNull(res.data.movingAverage)
               window == res.query.window
           IN  /\ Len(V) < 2 <=> res.data.trend = "insufficient_data"
               /\ Len(V) >= 2 <=> res.data.trend \in {"increasing", "decreasing", "stable"}
               /\ Len(V) < 2 <=> Len(res.data.data) < window + 1

\* 'insufficient_data' for a product with exactly as many buckets as the
\* window is long: one non-null value.
C15_Witness ==
    /\ Answered("trend")
    /\ res.data.trend = "insufficient_data"
    /\ Len(res.data.data) = res.query.window
    /\ Len(NonNull(res.data.movingAverage)) = 1

\* The positions of the restock entries of the product p.
Restocks(p) ==
    {i \in DOMAIN histLedger :
        histLedger[i].productId = p /\ histLedger[i].reason = "restock"}

RestockTimes(p) == {histLedger[i].timestamp : i \in Restocks(p)}

\* The restocks of p are g ticks apart, one after the other.
EquallySpaced(p, g) ==
    /\ Cardinality(RestockTimes(p)) = Cardinality(Restocks(p))
    /\ \E t0 \in RestockTimes(p) :
          RestockTimes(p) = {t0 + k * g : k \in 0..(Cardinality(Restocks(p)) - 1)}

InsufficientData ==
    [pattern |-> "insufficient_data", averageInterval |-> Null,
     nextPredictedRestock |-> Null, confidence |-> Integer(0)]

\* C16: GET /restock-pattern for a product with 0 or 1 restock entries is
\* answered 200 with the pattern 'insufficient_data', averageInterval null,
\* nextPredictedRestock null and confidence 0, whatever other entries the
\* product has; the route answers a valid query with 200.
C16_FewRestocksInsufficient ==
    /\ [][(res' # res /\ res'.kind = "restock-pattern")
             => (res'.status = 200 \/ (res'.status = 400 /\ res'.errors # {}))]_vars
    /\ [][(Answers("restock-pattern") /\ Cardinality(Restocks(res'.productId)) < 2)
             => res'.data = InsufficientData]_vars

\* 'insufficient_data' for a product with one restock and a sale.
C16_Witness ==
    /\ Answered("restock-pattern")
    /\ res.data = InsufficientData
    /\ Cardinality(Restocks(res.productId)) = 1
    /\ \E i \in DOMAIN histLedger :
          histLedger[i].productId = res.productId /\ histLedger[i].reason = "sale"

\* The square of the coefficient of variation of intervals with a mean
\* other than 0: the population variance over the square of the mean.
CoV2(intervals) ==
    LET mean == Mean(intervals)
        sq == [i \in DOMAIN intervals |->
                  Mult(Minus(intervals[i], mean), Minus(intervals[i], mean))]
    IN  Over(Mean(sq), Mult(mean, mean))

\* The class of a coefficient of variation c >= 0 with the square c2.
PatternClass(c2) ==
    IF Less(c2, Rat(1, 100)) THEN "highly_regular"
    ELSE IF Less(c2, Rat(9, 100)) THEN "regular"
    ELSE IF Less(c2, Rat(25, 100)) THEN "somewhat_irregular"
    ELSE "irregular"

\* conf is clamp(1 - c, 0, 1) for the c >= 0 with the square c2.
IsOneMinus(conf, c2) ==
    IF c2.n = 0 THEN conf = Integer(1)
    ELSE IF ~Less(c2, Integer(1)) THEN conf = Integer(0)
    ELSE conf = OneMinusSqrt(c2)

\* C17 as claimed: a product with at least 2 restock entries, exactly 2
\* included, is never answered 'insufficient_data'; its pattern is the
\* class of the coefficient of variation of its intervals and its
\* confidence clamp(1 - CoV, 0, 1) (intervals with a mean other than 0).
C17_ClassifiedFromTwoRestocks ==
    [][(Answers("restock-pattern") /\ Cardinality(Restocks(res'.productId)) >= 2)
          => /\ res'.data.pattern # "insufficient_data"
             /\ Mean(res'.data.intervals).n # 0
                  => /\ res'.data.pattern = PatternClass(CoV2(res'.data.intervals))
                     /\ IsOneMinus(res'.data.confidence, CoV2(res'.data.intervals))]_vars

C19_SameInstantRestocks ==
    [][(/\ Answers("restock-pattern")
        /\ Cardinality(Restocks(res'.productId)) >= 3
        /\ Cardinality(RestockTimes(res'.productId)) = 1)
          => /\ res'.data.pattern = "irregular"
             /\ res'.data.confidence = Integer(0)]_vars

\* C20 as claimed: when the mean of the first half of the non-null
\* moving-average values is 0, the trend GET /trend returns is 'stable'.
C20_ZeroFirstHalfStable ==
    Answered("trend")
        => LET V == NonNull(res.data.movingAverage)
               firstHalf == SubSeq(V, 1, Len(V) \div 2)
           IN  (Len(V) >= 2 /\ Mean(firstHalf).n = 0) => res.data.trend = "stable"


(***************************************************************************)
(* Properties of the ledgers under equal and backdated timestamps, and of  *)
(* the subscriber registry.                                                *)
(***************************************************************************)
\* The entry of p inserted last among its entries with the greatest
\* timestamp.
LastInsertedLatest(ledger, p) ==
    LET es == OfProduct(ledger, p)
        top == {i \in DOMAIN es : \A j \in DOMAIN es : es[j].timestamp <= es[i].timestamp}
    IN  es[SetMax(top)]

\* C25: among several entries of a product with the same timestamp, the
\* entry that an append and a read of the latest level take as the most
\* recent is the one inserted last, so the level read is determined: the
\* level written by the latest insertion.
C25_TiesTakeLastInserted ==
    \A p \in ProductIds :
        /\ OfProduct(histLedger, p) # <<>> =>
              getLatestStockLevel(histLedger, p)
                  = { LastInsertedLatest(histLedger, p).stockLevel }
        /\ OfProduct(tsLedger, p) # <<>> =>
              findOne(tsLedger, p) = { << LastInsertedLatest(tsLedger, p) >> }

\* C27: when POST /api/timeseries/record answers 201, the latest level of
\* the product (the level of its entry with the greatest timestamp) is the
\* stockLevel of the entry the append returned, whatever timestamp the
\* caller supplied.
C27_LatestIsReturnedLevel ==
    [][\A h \in Running :
          (h.kind = "record" /\ h.pc = "saved" /\ Steps(h))
          => /\ res'.status = 201
             /\ \A r \in findOne(tsLedger', h.doc[1].productId) :
                   /\ r # <<>>
                   /\ r[1].stockLevel = res'.level]_vars

(***************************************************************************)
(* The two ledgers fed by one caller who appends to the product P1, with   *)
(* room for the same three appends in each.                                *)
(***************************************************************************)
MaxPairedEntries == 6

PairedUpdateBodies == {b \in UpdateBodies : b.productId = "P1" /\ UpdateErrors(b) = {}}

PairedRecordBodies == {b \in RecordBodies : b.productId = "P1" /\ RecordErrors(b) = {}}

InitPaired ==
    /\ histLedger = <<>>
    /\ tsLedger = <<>>
    /\ sseClients = <<>>
    /\ broken = {}
    /\ now = 0
    /\ conc = 1
    /\ cap = MaxPairedEntries
    /\ stockLevels = <<>>
    /\ inflight = EmptyBag
    /\ res = NoResponse

NextPaired ==
    \/ Tick
    \/ \E body \in PairedUpdateBodies : StartUpdate(body)
    \/ \E h \in Running : BuildUpdate(h)
    \/ \E h \in Running : SaveUpdate(h)
    \/ \E h \in Running : RespondUpdate(h)
    \/ \E body \in PairedRecordBodies : StartRecord(body)
    \/ \E h \in Running : SaveRecord(h)
    \/ \E h \in Running : RespondRecord(h)

SpecPaired == InitPaired /\ [][NextPaired]_vars

Changes(es) == [i \in DOMAIN es |-> es[i].change]

NonDecreasing(es) ==
    \A i, j \in DOMAIN es : i < j => es[i].timestamp <= es[j].timestamp

\* The running sum of the changes never drops below 0.
RunningNonNegative(es) ==
    \A k \in 1..Len(es) : FoldStrict(SubSeq(es, 1, k)) >= 0

\* C28: the strict and the clamping ledger are equivalent on non-negative
\* histories.  After the same sequence of appends, with non-decreasing
\* timestamps and a running level that never drops below 0, both ledgers
\* hold every append, with the same level at every step.
C28_LedgersEquivalent ==
    \A p \in ProductIds :
        LET H == OfProduct(histLedger, p)
            T == OfProduct(tsLedger, p)
        IN  (/\ Quiescent
             /\ Changes(H) = Changes(T)
             /\ NonDecreasing(H)
             /\ NonDecreasing(T)
             /\ RunningNonNegative(T))
            => \A i \in DOMAIN T : H[i].stockLevel = T[i].stockLevel

(***************************************************************************)
(* The registry with three subscribers and one append of each route.       *)
(***************************************************************************)
Subscribers == {"c1", "c2", "c3"}

NextRegistry ==
    \/ \E c \in Subscribers : SSEConnect(c)
    \/ \E c \in Subscribers : ClientBreak(c)
    \/ StartUpdate(Body("P1", Num(1), "restock", NoTimestamp))
    \/ \E h \in Running : BuildUpdate(h)
    \/ \E h \in Running : SaveUpdate(h)
    \/ \E h \in Running : RespondUpdate(h)
    \/ StartRecord(Body("P1", Num(-2), "sale", NoTimestamp))
    \/ \E h \in Running : SaveRecord(h)
    \/ \E h \in Running : RespondRecord(h)

SpecRegistry == Init /\ [][NextRegistry]_vars

\* The handler h runs its broadcast in this step.
Broadcasts(h) == IsAppend(h) /\ h.pc = "saved" /\ Steps(h)

\* C29: a broadcast leaves in the registry exactly the clients registered
\* before it whose write did not throw, in their order; no step registers
\* a client twice, and the only other step that changes the registry is a
\* connection to GET /api/stocks/events, which appends its client.
C29_BroadcastFiltersRegistry ==
    [][/\ \A h \in Running :
            Broadcasts(h) =>
                sseClients' = SelectSeq(sseClients, LAMBDA c : c \notin broken)
       /\ (sseClients' # sseClients /\ ~\E h \in Running : Broadcasts(h))
            => /\ inflight' = inflight
               /\ \E c \in Subscribers \ Registered : sseClients' = Append(sseClients, c)
       /\ \A i, j \in DOMAIN sseClients' :
            sseClients'[i] = sseClients'[j] => i = j]_vars

\* An append was answered after its broadcast dropped a subscriber whose
\* write threw and kept the two others.
C29_Witness ==
    /\ res.status = 201
    /\ Quiescent
    /\ Len(sseClients) = 2
    /\ broken # {}
    /\ broken \cap Registered = {}

(***************************************************************************)
(* TimeSeriesAnalysisService over the StockTimeSeries collection.          *)
(*                                                                         *)
(* The service computes with timestamp.getTime(), in milliseconds; the     *)
(* model's timestamps count clock ticks of MsPerTick milliseconds.  A      *)
(* regression line is the same line in both units: its intercept, its R^2  *)
(* and its value slope * x + intercept at an instant x do not depend on    *)
(* the unit, and its slope per millisecond is its slope per tick divided   *)
(* by MsPerTick.  The model keeps every slope per step of its x axis and   *)
(* applies the unit where the code compares a slope with a constant.       *)
(***************************************************************************)
MsPerDay == 24 * 60 * 60 * 1000
MsPerTick == MsPerDay \div TicksPerDay

\* JavaScript +, -, * and / on numbers that may be NaN or infinite.
Arith(op, a, b) ==
    LET sgn(x) == IF x.n > 0 THEN 1 ELSE IF x.n < 0 THEN -1 ELSE 0
        inf(s) == IF s > 0 THEN Infinity ELSE NegInfinity
        neg(x) == IF IsFinite(x) THEN [x EXCEPT !.n = -x.n]
                  ELSE IF x.k = "NaN" THEN NaN ELSE inf(-sgn(x))
        add(x, y) == IF IsFinite(x) THEN y
                     ELSE IF IsFinite(y) \/ x = y THEN x ELSE NaN
    IN  IF IsFinite(a) /\ IsFinite(b)
        THEN CASE op = "+" -> Plus(a, b)
               [] op = "-" -> Minus(a, b)
               [] op = "*" -> Mult(a, b)
               [] op = "/" -> Over(a, b)
        ELSE IF a.k = "NaN" \/ b.k = "NaN" THEN NaN
        ELSE CASE op = "+" -> add(a, b)
               [] op = "-" -> add(a, neg(b))
               [] op = "*" -> IF sgn(a) * sgn(b) = 0 THEN NaN ELSE inf(sgn(a) * sgn(b))
               [] op = "/" -> IF ~IsFinite(a) /\ ~IsFinite(b) THEN NaN
                              ELSE IF IsFinite(a) THEN Integer(0)
                              ELSE inf(sgn(a) * (IF sgn(b) < 0 THEN -1 ELSE 1))

\* const name = value; body: the body is a function of the value, which is
\* computed once.
Const(value, body(_)) == body(value)

\* Math.min and Math.max of two numbers: NaN when either is NaN.
MathMin(a, b) ==
    IF a.k = "NaN" \/ b.k = "NaN" THEN NaN ELSE IF Less(b, a) THEN b ELSE a

MathMax(a, b) ==
    IF a.k = "NaN" \/ b.k = "NaN" THEN NaN ELSE IF Greater(b, a) THEN b ELSE a

RECURSIVE Reduce(_)
\* numbers.reduce((sum, v) => sum + v, 0)
Reduce(numbers) ==
    IF numbers = <<>> THEN Integer(0)
    ELSE Arith("+", Reduce(SubSeq(numbers, 1, Len(numbers) - 1)), numbers[Len(numbers)])

RECURSIVE sortByTimestamp(_, _, _)
\* find(...).sort({ timestamp: dir }) of the documents I of a collection:
\* the orders the database can return them in.  Documents with equal
\* timestamps come in any order.
sortByTimestamp(collection, I, dir) ==
    IF I = {} THEN { <<>> }
    ELSE LET first == {i \in I : \A j \in I :
                          dir * collection[i].timestamp <= dir * collection[j].timestamp}
         IN  UNION { { <<collection[i]>> \o rest :
                          rest \in sortByTimestamp(collection, I \ {i}, dir) } : i \in first }

\* The least-squares line through the points (x[i], values[i]) and its
\* R^2, as linearTrendAnalysis and the StockLevel fallback of GET /trend
\* compute them; slope is per step of x.
linearRegression(values, x) ==
    LET n == Len(values)
        sumX == SetSum(x, DOMAIN x)
        sumY == SetSum(values, DOMAIN values)
        sumXY == SetSum([i \in DOMAIN x |-> x[i] * values[i]], DOMAIN x)
        sumXX == SetSum([i \in DOMAIN x |-> x[i] * x[i]], DOMAIN x)
        slope == Over(Integer(n * sumXY - sumX * sumY), Integer(n * sumXX - sumX * sumX))
        intercept == Arith("/", Arith("-", Integer(sumY), Arith("*", slope, Integer(sumX))),
                           Integer(n))
        yMean == Over(Integer(sumY), Integer(n))
        square(a) == Arith("*", a, a)
        ssRes == Reduce([i \in DOMAIN values |->
                    LET predicted == Arith("+", Arith("*", slope, Integer(x[i])), intercept)
                    IN  square(Arith("-", Integer(values[i]), predicted))])
        ssTot == Reduce([i \in DOMAIN values |->
                    square(Arith("-", Integer(values[i]), yMean))])
    IN  [slope |-> slope, intercept |-> intercept,
         r2 |-> Arith("-", Integer(1), Arith("/", ssRes, ssTot))]

\* linearTrendAnalysis(values, timestamps) on an x axis whose step is
\* msPerStep of the units the code computes in (MsPerTick for timestamps,
\* 1 for the indices of arimaForecast): slope / msPerStep > 0.001.
linearTrendAnalysis(values, x, msPerStep) ==
    Const(linearRegression(values, x), LAMBDA line :
        [method |-> "linear", slope |-> line.slope, intercept |-> line.intercept,
         r2 |-> line.r2,
         trend |-> IF Greater(line.slope, Rat(msPerStep, 1000)) THEN "increasing"
                   ELSE IF Less(line.slope, Rat(-msPerStep, 1000)) THEN "decreasing"
                   ELSE "stable",
         confidence |-> MathMin(line.r2, Integer(1)),
         dataPoints |-> Len(values)])

DefaultWindow == 7

\* movingAverageTrendAnalysis(values, timestamps, window = 7)
movingAverageTrendAnalysis(values, window) ==
    LET movingAverages ==
            [k \in 1..Max(0, Len(values) - window + 1) |->
                Over(Integer(SetSum(values, k..(k + window - 1))), Integer(window))]
        last == movingAverages[Len(movingAverages)]
    IN  [method |-> "moving_average", window |-> window,
         trend |-> IF Len(movingAverages) > 1
                   THEN (IF Greater(last, movingAverages[1]) THEN "increasing"
                         ELSE "decreasing")
                   ELSE "stable",
         confidence |-> Rat(7, 10),
         dataPoints |-> Len(movingAverages)]

\* analyzeTrend that is content with one point.
analyzeTrendOnePoint(collection, productId, startTime, endTime, method) ==
    LET I == {i \in DOMAIN collection :
                /\ collection[i].productId = productId
                /\ startTime <= collection[i].timestamp
                /\ collection[i].timestamp <= endTime}
    IN  { IF Len(data) < 1
          THEN [method |-> method, trend |-> "insufficient_data", confidence |-> Integer(0)]
          ELSE linearTrendAnalysis([i \in DOMAIN data |-> data[i].stockLevel],
                                   [i \in DOMAIN data |-> data[i].timestamp], MsPerTick) :
          data \in sortByTimestamp(collection, I, 1) }

\* analyzeTrend: the results it can return.  The polynomial and the
\* exponential method are not computed: of their result the model keeps
\* the method, and of their trend that it is not 'insufficient_data'.
analyzeTrend(collection, productId, startTime, endTime, method) ==
    LET I == {i \in DOMAIN collection :
                /\ collection[i].productId = productId
                /\ startTime <= collection[i].timestamp
                /\ collection[i].timestamp <= endTime}
    IN  { IF Len(data) < 2
          THEN [method |-> method, trend |-> "insufficient_data", confidence |-> Integer(0)]
          ELSE LET values == [i \in DOMAIN data |-> data[i].stockLevel]
                   timestamps == [i \in DOMAIN data |-> data[i].timestamp]
               IN  CASE method = "linear" -> linearTrendAnalysis(values, timestamps, MsPerTick)
                     [] method \in {"polynomial", "exponential"} ->
                            [method |-> method, trend |-> "other"]
                     [] method = "moving_average" ->
                            movingAverageTrendAnalysis(values, DefaultWindow)
                     [] OTHER -> linearTrendAnalysis(values, timestamps, MsPerTick) :
          data \in sortByTimestamp(collection, I, 1) }

\* The StockLevel fallback of GET /api/timeseries/trend: the regression of
\* stockPercentage on the index of the record.
stockLevelTrend(method, stockLevelData) ==
    LET n == Len(stockLevelData)
    IN  Const(linearRegression([i \in 1..n |-> stockLevelData[i].stockPercentage],
                               [i \in 1..n |-> i - 1]), LAMBDA line :
        [method |-> method,
         trend |-> IF Greater(line.slope, Rat(1, 10)) THEN "increasing"
                   ELSE IF Less(line.slope, Rat(-1, 10)) THEN "decreasing"
                   ELSE "stable",
         slope |-> line.slope, intercept |-> line.intercept, r2 |-> line.r2,
         confidence |-> MathMin(line.r2, Integer(1)), dataPoints |-> n])

\* coef * Math.exp(-tenths * 0.1): the exponential is kept as a symbol.
Decayed(coef, tenths) == [coef |-> coef, tenths |-> tenths]

\* linearTrendForecast(values, timestamps, horizon)
linearTrendForecast(values, timestamps, horizon) ==
    LET lastTimestamp == timestamps[Len(timestamps)]
        timeStep == timestamps[2] - timestamps[1]
    IN  Const(linearTrendAnalysis(values, timestamps, MsPerTick), LAMBDA trend :
        [method |-> "linear_trend",
         forecast |->
            [i \in 1..horizon |->
                LET futureTimestamp == lastTimestamp + (i * timeStep)
                    predictedValue ==
                        Arith("+", Arith("*", trend.slope, Integer(futureTimestamp)),
                              trend.intercept)
                IN  [timestamp |-> futureTimestamp,
                     predictedValue |-> MathMax(predictedValue, Integer(0)),
                     confidence |-> Decayed(trend.confidence, i)]],
         confidence |-> trend.confidence,
         trend |-> trend.trend])

\* exponentialSmoothingForecast(values, horizon, alpha = 0.3), called at
\* the instant t.
exponentialSmoothingForecast(values, horizon, alpha, t) ==
    IF Len(values) < 2
    THEN [method |-> "exponential_smoothing", forecast |-> <<>>, confidence |-> Integer(0)]
    ELSE LET RECURSIVE smoothed(_)
             smoothed(i) ==
                IF i = 0 THEN Integer(values[1])
                ELSE Plus(Mult(alpha, Integer(values[Len(values)])),
                          Mult(Minus(Integer(1), alpha), smoothed(i - 1)))
         IN  [method |-> "exponential_smoothing",
              forecast |->
                 [i \in 1..horizon |->
                     [timestamp |-> t + i * TicksPerDay,
                      predictedValue |-> MathMax(smoothed(i), Integer(0)),
                      confidence |-> Decayed(MathMax(Rat(50 - 5 * i, 100), Rat(1, 10)), 0)]],
              confidence |-> Rat(6, 10),
              alpha |-> alpha]

\* arimaForecast(values, horizon), called at the instant t.
arimaForecast(values, horizon, t) ==
    IF Len(values) < 10
    THEN [method |-> "arima", forecast |-> <<>>, confidence |-> Integer(0),
          error |-> "Insufficient data for ARIMA"]
    ELSE LET lag1Values == SubSeq(values, 1, Len(values) - 1)
             currentValues == SubSeq(values, 2, Len(values))
             RECURSIVE predicted(_, _)
             predicted(trend, i) ==
                LET lastValue == IF i = 1 THEN Integer(values[Len(values)])
                                 ELSE predicted(trend, i - 1)
                IN  Arith("+", Arith("*", trend.slope, lastValue), trend.intercept)
         IN  Const(linearTrendAnalysis(currentValues,
                                       [i \in DOMAIN lag1Values |-> i - 1], 1), LAMBDA trend :
             [method |-> "arima",
              forecast |->
                 [i \in 1..horizon |->
                     [timestamp |-> t + i * TicksPerDay,
                      predictedValue |-> MathMax(predicted(trend, i), Integer(0)),
                      confidence |-> Decayed(MathMax(Rat(40 - 5 * i, 100), Rat(1, 10)), 0)]],
              confidence |-> Arith("*", trend.confidence, Rat(8, 10)),
              parameters |-> [p |-> 1, d |-> 0, q |-> 0]])

\* generateForecast, called at the instant t: the results it can return.
\* The query sorts descending and takes 100 documents; data.reverse()
\* reverses the array in place, so values and timestamps both ascend.
generateForecast(collection, productId, horizon, method, t) ==
    LET I == {i \in DOMAIN collection : collection[i].productId = productId}
        limit(d) == SubSeq(d, 1, IF Len(d) < 100 THEN Len(d) ELSE 100)
        reverse(d) == [i \in 1..Len(d) |-> d[Len(d) + 1 - i]]
    IN  { IF Len(found) < 10
          THEN [method |-> method, forecast |-> <<>>, confidence |-> Integer(0),
                error |-> "Insufficient data"]
          ELSE LET data == reverse(limit(found))
                   values == [i \in DOMAIN data |-> data[i].stockLevel]
                   timestamps == [i \in DOMAIN data |-> data[i].timestamp]
               IN  CASE method = "exponential_smoothing" ->
                            exponentialSmoothingForecast(values, horizon, Rat(3, 10), t)
                     [] method = "arima" -> arimaForecast(values, horizon, t)
                     [] OTHER -> linearTrendForecast(values, timestamps, horizon) :
          found \in sortByTimestamp(collection, I, -1) }

(***************************************************************************)
(* GET /api/timeseries/trend and GET /api/timeseries/forecast.             *)
(***************************************************************************)
TrendMethods == {"linear", "polynomial", "exponential", "moving_average"}

ForecastMethods == {"arima", "exponential_smoothing", "linear_trend"}

\* req.query of GET /api/timeseries/trend; method "" is a query without
\* the parameter.
TsTrendQuery(productId, startTime, endTime, method) ==
    [productId |-> productId, startTime |-> startTime, endTime |-> endTime,
     method |-> method]

TsTrendQueries ==
    { TsTrendQuery("P1", NoTimestamp, NoTimestamp, m) :
        m \in {"", "linear", "moving_average", "invalid_method"} } \cup
    { TsTrendQuery("P1", At(s), At(e), "linear") : s \in 1..2, e \in 2..3 } \cup
    { TsTrendQuery("P2", NoTimestamp, NoTimestamp, "linear"),
      TsTrendQuery("", NoTimestamp, NoTimestamp, "linear"),
      TsTrendQuery("P1", BadTimestamp, NoTimestamp, "linear"),
      TsTrendQuery("P1", NoTimestamp, BadTimestamp, "linear") }

\* express-validator chains of GET /api/timeseries/trend.
TsTrendErrors(q) ==
    {f \in {"productId"} : q.productId = ""} \cup
    {f \in {"startTime"} : q.startTime.given /\ ~q.startTime.iso} \cup
    {f \in {"endTime"} : q.endTime.given /\ ~q.endTime.iso} \cup
    {f \in {"method"} : q.method \notin TrendMethods \cup {""}}

\* The window of a trend query at the instant t: 30 days back by default.
TrendWindow(q, t) ==
    [startTime |-> IF q.startTime.given THEN q.startTime.value ELSE t - 30 * TicksPerDay,
     endTime |-> IF q.endTime.given THEN q.endTime.value ELSE t]

\* GET /api/timeseries/trend -> analyzeTrend, and the StockLevel
\* collection when the time series is too short.
GetTsTrend(q) ==
    LET method == IF q.method = "" THEN "linear" ELSE q.method
        w == TrendWindow(q, now)
        I == {i \in DOMAIN stockLevels :
                /\ stockLevels[i].productId = q.productId
                /\ w.startTime <= stockLevels[i].timestamp
                /\ stockLevels[i].timestamp <= w.endTime}
    IN  IF TsTrendErrors(q) # {}
        THEN AnalyticalRead("tstrend", TsTrendErrors(q), q, <<>>)
        ELSE \E trendAnalysis \in analyzeTrend(tsLedger, q.productId, w.startTime,
                                               w.endTime, method),
                stockLevelData \in sortByTimestamp(stockLevels, I, 1) :
               AnalyticalRead("tstrend", {}, [q EXCEPT !.method = method],
                   IF trendAnalysis.trend = "insufficient_data" /\ Len(stockLevelData) >= 3
                   THEN stockLevelTrend(method, stockLevelData)
                   ELSE trendAnalysis)

\* req.query of GET /api/timeseries/forecast.
NoHorizon == [given |-> FALSE, value |-> 7]
Horizon(n) == [given |-> TRUE, value |-> n]

ForecastQuery(productId, horizon, method) ==
    [productId |-> productId, horizon |-> horizon, method |-> method]

MaxHorizon == 2

ForecastQueries ==
    { ForecastQuery("P1", Horizon(n), m) : n \in 1..MaxHorizon, m \in ForecastMethods } \cup
    { ForecastQuery("P1", NoHorizon, ""),
      ForecastQuery("P2", Horizon(1), "arima"),
      ForecastQuery("", NoHorizon, ""),
      ForecastQuery("P1", Horizon(0), "linear_trend"),
      ForecastQuery("P1", Horizon(31), "linear_trend"),
      ForecastQuery("P1", NoHorizon, "prophet") }

\* express-validator chains of GET /api/timeseries/forecast.
ForecastErrors(q) ==
    {f \in {"productId"} : q.productId = ""} \cup
    {f \in {"horizon"} : q.horizon.given /\ (q.horizon.value < 1 \/ q.horizon.value > 30)} \cup
    {f \in {"method"} : q.method \notin ForecastMethods \cup {""}}

\* GET /api/timeseries/forecast -> generateForecast
GetForecast(q) ==
    LET method == IF q.method = "" THEN "linear_trend" ELSE q.method
        horizon == q.horizon.value
    IN  IF ForecastErrors(q) # {}
        THEN AnalyticalRead("forecast", ForecastErrors(q), q, <<>>)
        ELSE \E forecast \in generateForecast(tsLedger, q.productId, horizon, method, now) :
               AnalyticalRead("forecast", {}, [q EXCEPT !.method = method, !.horizon = horizon],
                              forecast)

(***************************************************************************)
(* Time series with a history: what appends to POST /api/timeseries/record *)
(* leave behind when the caller repeats a pattern of one or two moves, or  *)
(* ends the longest series with a move of its choice; a move comes a tick  *)
(* or a day after the entry before and leaves the level unchanged or one   *)
(* up.                                                                     *)
(***************************************************************************)
MaxPoints == 10

SeriesMoves ==
    { Move(g, "P1", c[1], c[2]) :
        g \in {1, TicksPerDay}, c \in { <<0, "adjustment">>, <<1, "restock">> } }

Patterns ==
    { <<m>> : m \in SeriesMoves } \cup { <<m1, m2>> : m1 \in SeriesMoves, m2 \in SeriesMoves }

\* The time series after one more append.
Recorded(collection, m) ==
    { save(collection, timeSeriesRecord(latestRecord, m.productId, m.change, m.reason,
                                        LastTime(collection) + m.gap)) :
        latestRecord \in findOne(collection, m.productId) }

RECURSIVE Patterned(_, _)
\* The time series after n appends that repeat pattern.
Patterned(pattern, n) ==
    IF n = 0 THEN { <<>> }
    ELSE UNION { Recorded(l, pattern[((n - 1) % Len(pattern)) + 1]) :
                    l \in Patterned(pattern, n - 1) }

\* The StockLevel collection: empty, or three readings of P1.
StockLevelSamples ==
    { <<>>,
      << [productId |-> "P1", timestamp |-> 1, stockPercentage |-> 10],
         [productId |-> "P1", timestamp |-> 2, stockPercentage |-> 50],
         [productId |-> "P1", timestamp |-> 3, stockPercentage |-> 90] >> }

\* The time series of at most MaxPoints entries.
Series ==
    UNION { Patterned(p, n) : p \in Patterns, n \in 0..MaxPoints } \cup
    UNION { Recorded(l, m) :
              l \in UNION { Patterned(p, MaxPoints - 1) : p \in Patterns },
              m \in SeriesMoves }

InitSeries ==
    /\ histLedger = <<>>
    /\ tsLedger \in Series
    /\ sseClients = <<>>
    /\ broken = {}
    /\ now = LastTime(tsLedger)
    /\ conc = 1
    /\ cap = MaxEntries
    /\ stockLevels \in StockLevelSamples
    /\ inflight = EmptyBag
    /\ res = NoResponse

\* analyzeTrend and generateForecast over time series with a history.
NextSeries ==
    \/ \E q \in TsTrendQueries : GetTsTrend(q)
    \/ \E q \in ForecastQueries : GetForecast(q)

SpecSeries == InitSeries /\ [][NextSeries]_vars

(***************************************************************************)
(* Properties of the time-series analysis.                                 *)
(***************************************************************************)
\* The entries of the time series that a trend query selects, in insertion
\* order: those of its product in its window, 30 days back by default.
Selected(q) ==
    LET w == TrendWindow(q, now)
    IN  SelectSeq(tsLedger, LAMBDA e :
            /\ e.productId = q.productId
            /\ w.startTime <= e.timestamp
            /\ e.timestamp <= w.endTime)

\* Inserted in the order of their timestamps, which are distinct.
Ascending(es) == \A i, j \in DOMAIN es : i < j => es[i].timestamp < es[j].timestamp

\* At least two points at distinct instants, the later the higher, all on
\* one line.
PerfectlyLinearIncreasing(es) ==
    /\ Len(es) >= 2
    /\ \A i, j \in DOMAIN es : i # j => es[i].timestamp # es[j].timestamp
    /\ \A i, j \in DOMAIN es :
          es[i].timestamp < es[j].timestamp => es[i].stockLevel < es[j].stockLevel
    /\ \A i, j, k \in DOMAIN es :
          (es[j].stockLevel - es[i].stockLevel) * (es[k].timestamp - es[i].timestamp)
              = (es[k].stockLevel - es[i].stockLevel) * (es[j].timestamp - es[i].timestamp)

\* C21: the linear trend of a perfectly linear, strictly increasing series
\* of at least two points with distinct timestamps is 'increasing', with
\* R^2 = 1 and confidence 1.
C21_LinearSeriesIncreasing ==
    (/\ Answered("tstrend")
     /\ res.query.method = "linear"
     /\ PerfectlyLinearIncreasing(Selected(res.query)))
    => /\ res.data.trend = "increasing"
       /\ res.data.r2 = Integer(1)
       /\ res.data.confidence = Integer(1)

\* A confidence lies in [0, 1]; its coefficient never exceeds 1.
IsUnit(c) ==
    /\ IsFinite(c.coef)
    /\ ~Less(c.coef, Integer(0))
    /\ ~Greater(c.coef, Integer(1))

\* The confidence c2 is not above c1, for two confidences that decay
\* alike or that decay from the same coefficient.
NotAbove(c2, c1) ==
    /\ IsFinite(c1.coef)
    /\ IsFinite(c2.coef)
    /\ IF c1.tenths = c2.tenths THEN ~Greater(c2.coef, c1.coef)
       ELSE /\ c1.coef = c2.coef
            /\ c1.tenths < c2.tenths
            /\ ~Less(c1.coef, Integer(0))

\* C22: for each of the three methods and every horizon >= 1, the forecast
\* of a series of at least 10 points has exactly horizon points, each with
\* a predictedValue >= 0 and a confidence in [0, 1] that does not grow with
\* the distance.
C22_ForecastShape ==
    (Answered("forecast") /\ Len(OfProduct(tsLedger, res.productId)) >= 10)
    => LET forecast == res.data.forecast
       IN  /\ Len(forecast) = res.query.horizon
           /\ \A i \in DOMAIN forecast :
                 /\ IsFinite(forecast[i].predictedValue)
                 /\ ~Less(forecast[i].predictedValue, Integer(0))
                 /\ IsUnit(forecast[i].confidence)
           /\ \A i, j \in DOMAIN forecast :
                 i < j => NotAbove(forecast[j].confidence, forecast[i].confidence)

C24_UnknownMethodFallsBack ==
    [][\A q \in TsTrendQueries :
          (/\ q.method \notin TrendMethods \cup {""}
           /\ TsTrendErrors([q EXCEPT !.method = ""]) = {}
           /\ GetTsTrend(q))
          => /\ res'.status = 200
             /\ res'.data.method = "linear"]_vars

\* C26: the linear_trend forecast of a series places its i-th point at
\* lastTimestamp + i * step, where step is the gap between the two most
\* recent timestamps of the series.
C26_LastSpacingStep ==
    LET es == OfProduct(tsLedger, res.productId)
        n == Len(es)
    IN  (/\ Answered("forecast")
         /\ res.query.method = "linear_trend"
         /\ n >= 10
         /\ Ascending(es))
        => \A i \in 1..res.query.horizon :
              res.data.forecast[i].timestamp
                  = es[n].timestamp + i * (es[n].timestamp - es[n - 1].timestamp)

\* C30: the moving_average trend compares the first and the last average
\* of 7 consecutive values: 'increasing' only when the last is greater,
\* 'decreasing' only when it is smaller, and 'stable' when at most one
\* average exists.
C30_MovingAverageDirection ==
    LET es == Selected(res.query)
        n == Len(es)
        values == [i \in 1..n |-> es[i].stockLevel]
        first == SetSum(values, 1..DefaultWindow)
        last == SetSum(values, (n - DefaultWindow + 1)..n)
    IN  (/\ Answered("tstrend")
         /\ res.query.method = "moving_average"
         /\ n >= 2
         /\ Ascending(es))
        => IF n - DefaultWindow + 1 <= 1 THEN res.data.trend = "stable"
           ELSE /\ res.data.trend = "increasing" => last > first
                /\ res.data.trend = "decreasing" => last < first
====
